---- MODULE Spec2Model ----
(***************************************************************************)
(* A model of the quantitative core of vcg-terminal: AdvancedRiskEngine    *)
(* (returns, GARCH(1,1), VaR / Expected Shortfall, Monte Carlo, volume     *)
(* profile, risk metrics) and OptionsAnalyzer (Black-Scholes, implied      *)
(* volatility), and of the services that feed it: MultiApiService (quotes  *)
(* and histories from six providers, cached) and the real-time             *)
(* subscription of MarketDataService.                                      *)
(*                                                                         *)
(* Numbers.  The program computes in IEEE doubles; the model computes in   *)
(* fixed point, every quantity an integer count of a stated unit, every    *)
(* division rounded to the nearest unit (RDiv).  Prices and volumes are    *)
(* whole numbers, returns are counted in 1/RScale, variances in            *)
(* 1/RScale^2.  A value the program would produce as NaN is the token NaN. *)
(***************************************************************************)
EXTENDS Integers, Sequences, FiniteSets, TLC

VARIABLES
    data,       \* AdvancedRiskEngine.data: the bar history, a sequence of bars
    returns,    \* AdvancedRiskEngine.returns: the simple returns, unit 1/RScale
    riskFreeRate, \* OptionsAnalyzer.riskFreeRate, in millionths
    call,       \* the operation last invoked, with its arguments
    result,     \* what that operation returned (or the error it threw)
    solver,     \* calculateImpliedVolatility in progress: its loop variables
    rateGiven,  \* the argument list new OptionsAnalyzer(...) was called with
    now,        \* Date.now(), in milliseconds
    apiCache,   \* MultiApiService.cache
    serviceCache, \* MarketDataService.cache
    pending,    \* the calls of MultiApiService and the tick handlers awaiting an answer
    interval,   \* the timer of subscribeToRealTimeData
    delivered   \* the invocations of the subscriber's callback, in order

\* the market-data services: their caches, the clock, what is in flight
feed == <<now, apiCache, serviceCache, pending, interval, delivered>>

vars == <<data, returns, riskFreeRate, call, result, solver, rateGiven, feed>>

----------------------------------------------------------------------------
(* Bounds of the model *)

MaxBars == 4        \* longest bar history of which every sequence is tried

LongBars == 101     \* length of the long, patterned bar histories

NumWaves == 3       \* the long histories follow the patterns 0 .. NumWaves

MaxCandles == 3     \* longest history of which the volume profile is taken

MaxTicks == 2       \* ticks of the real-time timer

MaxClock == 390000  \* the clock stops being advanced here, in milliseconds

ManySims == 1000    \* the largest number of simulated paths

MaxDays == 2        \* the longest simulated horizon, in days

ShockPeriod == 100  \* the random source of the model repeats after this many draws

----------------------------------------------------------------------------
(* Fixed-point arithmetic *)

RScale == 10^4      \* a return of 1.0 is RScale units (one unit = 1 basis point)


Abs(x) == IF x < 0 THEN 0 - x ELSE x

\* a / b rounded to the nearest integer (halves up), b > 0
RDiv(a, b) == (a \div b) + (IF a % b >= b - (a % b) THEN 1 ELSE 0)

\* s[lo] + ... + s[hi], summed by halves (the recursion stays shallow)
RECURSIVE SumRange(_, _, _)
SumRange(s, lo, hi) ==
    IF lo > hi THEN 0
    ELSE IF lo = hi THEN s[lo]
    ELSE LET mid == (lo + hi) \div 2
         IN  SumRange(s, lo, mid) + SumRange(s, mid + 1, hi)

SumSeq(s) == SumRange(s, 1, Len(s))

\* the function f on 1..n written out as a sequence
List(f) == SubSeq(f, 1, Len(f))

\* Newton's iteration for the whole square root of n, downwards from a y
\* that is not below it
RECURSIVE SqrtFrom(_, _)
SqrtFrom(n, y) ==
    LET nx == (y + (n \div y)) \div 2
    IN  IF nx >= y THEN y ELSE SqrtFrom(n, nx)

\* floor of the square root of n >= 0; the start is the least power of two
\* whose square exceeds n
ISqrt(n) ==
    IF n = 0 THEN 0
    ELSE SqrtFrom(n, 2^(CHOOSE j \in 1..16 : (j = 16 \/ 4^j > n) /\ 4^(j - 1) <= n))

MaxInt == (2^30 - 1) + 2^30  \* the largest integer of the model

\* the tokens for +Infinity, -Infinity and NaN, outside the range of the numbers
PosInf == MaxInt

NegInf == 0 - MaxInt

NaN == (0 - MaxInt) - 1

IsFinite(x) == x # NaN /\ x # PosInf /\ x # NegInf

Sign(x) == IF x < 0 THEN 0 - 1 ELSE 1

Min(a, b) == IF a <= b THEN a ELSE b

Max(a, b) == IF a >= b THEN a ELSE b

\* r1 + r2 for two remainders below c, as << carry, remainder >>
AddQR(r1, r2, c) ==
    IF r1 >= c - r2 THEN << 1, r1 - (c - r2) >> ELSE << 0, r1 + r2 >>

\* the four digits of 0 <= a <= MaxInt in base 1000, lowest first
KDigits(a) ==
    << a % 1000, (a \div 1000) % 1000, (a \div 1000000) % 1000, a \div 1000000000 >>

\* the product of the digit lists x and y before the carries: entry k is the
\* sum of the products of the digits whose places add up to k
KMultiply(x, y) ==
    << x[1] * y[1],
       x[1] * y[2] + x[2] * y[1],
       x[1] * y[3] + x[2] * y[2] + x[3] * y[1],
       x[1] * y[4] + x[2] * y[3] + x[3] * y[2] + x[4] * y[1],
       x[2] * y[4] + x[3] * y[3] + x[4] * y[2],
       x[3] * y[4] + x[4] * y[3],
       x[4] * y[4] >>

\* the carries taken through the seven entries of p: eight digits below
\* 1000, lowest first
KCarry(p) ==
    LET n1 == p[1]
        n2 == p[2] + (n1 \div 1000)
        n3 == p[3] + (n2 \div 1000)
        n4 == p[4] + (n3 \div 1000)
        n5 == p[5] + (n4 \div 1000)
        n6 == p[6] + (n5 \div 1000)
        n7 == p[7] + (n6 \div 1000)
    IN  << n1 % 1000, n2 % 1000, n3 % 1000, n4 % 1000, n5 % 1000, n6 % 1000,
           n7 % 1000, n7 \div 1000 >>

\* long division of the eight digits d (lowest first) by c <= MaxInt / 1000:
\* the eight digits of the quotient, HIGHEST first, then the remainder; for
\* c = 10^9 the five upper digits are the quotient, the three lower ones the
\* remainder
KDivide(d, c) ==
    LET t8 == d[8]
        t7 == (t8 % c) * 1000 + d[7]
        t6 == (t7 % c) * 1000 + d[6]
        t5 == (t6 % c) * 1000 + d[5]
        t4 == (t5 % c) * 1000 + d[4]
        t3 == (t4 % c) * 1000 + d[3]
        t2 == (t3 % c) * 1000 + d[2]
        t1 == (t2 % c) * 1000 + d[1]
    IN  IF c = 1000000000
        THEN << 0, 0, 0, d[8], d[7], d[6], d[5], d[4],
                d[3] * 1000000 + d[2] * 1000 + d[1] >>
        ELSE << t8 \div c, t7 \div c, t6 \div c, t5 \div c, t4 \div c, t3 \div c,
                t2 \div c, t1 \div c, t1 % c >>

\* <<quotient, remainder>> from the nine entries of KDivide, <<PosInf, 0>>
\* when the quotient reaches MaxInt
KValue(q) ==
    IF \/ \E k \in 1..4 : q[k] > 0
       \/ q[5] > 2
       \/ (q[5] = 2 /\ q[6] * 1000000 + q[7] * 1000 + q[8] >= 147483647)
    THEN <<PosInf, 0>>
    ELSE << q[5] * 1000000000 + q[6] * 1000000 + q[7] * 1000 + q[8], q[9] >>

\* e * c / d rounded up, for 0 <= e <= d, formed without the product e * c
PartUp(e, d, c) == e * (c \div d) + ((e * (c % d) + (d - 1)) \div d)

\* << quotient, remainder >> of d * r by c, for 0 <= r < c and 0 <= d <= 10:
\* the quotient is the largest e with e * c <= d * r
TimesSmall(r, d, c) ==
    IF d = 0 THEN <<0, 0>>
    ELSE LET e == CHOOSE k \in 0..(d - 1) : PartUp(k, d, c) <= r /\ PartUp(k + 1, d, c) > r
         IN  << e, d * (r - PartUp(e, d, c)) + (d * (PartUp(e, d, c) - e * (c \div d)) - e * (c % d)) >>

\* one decimal digit d of the multiplier: from qr = <<q, r>> with x = q * c + r
\* to the pair for 10 * x + d * a; <<PosInf, 0>> when the quotient leaves the
\* integers of the model
MulDecDigit(qr, d, a, c) ==
    IF qr[1] = PosInf THEN qr
    ELSE LET t == TimesSmall(qr[2], 10, c)
             u == TimesSmall(a % c, d, c)
             v == AddQR(t[2], u[2], c)
             k == t[1] + d * (a \div c) + u[1] + v[1]
         IN  IF qr[1] > ((MaxInt - 1) - k) \div 10 THEN <<PosInf, 0>>
             ELSE << 10 * qr[1] + k, v[2] >>

\* <<q, r>> with a * b = q * c + r and 0 <= r < c, for a, b >= 0 and
\* c > MaxInt / 1000, from the decimal digits of b, so that no product wider
\* than the integers of the model is formed
RECURSIVE MulDec(_, _, _)
MulDec(a, b, c) ==
    IF b = 0 THEN <<0, 0>> ELSE MulDecDigit(MulDec(a, b \div 10, c), b % 10, a, c)

\* <<q, r>> with a * b = q * c + r and 0 <= r < c, for a, b >= 0 and c > 0;
\* <<PosInf, 0>> when the quotient leaves the integers of the model
MulQR(a, b, c) ==
    IF b = 0 \/ a <= MaxInt \div (IF b = 0 THEN 1 ELSE b)
    THEN << (a * b) \div c, (a * b) % c >>
    ELSE IF c <= MaxInt \div 1000 \/ c = 1000000000
    THEN KValue(KDivide(KCarry(KMultiply(KDigits(a), KDigits(b))), c))
    ELSE MulDec(Max(a, b), Min(a, b), c)

\* the quotient of qr = <<quotient, remainder>> by c rounded to the nearest
\* integer and given the sign sgn; +-Infinity when it leaves the integers
Rounded(qr, c, sgn) ==
    IF qr[1] >= PosInf - 1 THEN sgn * PosInf
    ELSE sgn * (IF qr[2] >= c - qr[2] THEN qr[1] + 1 ELSE qr[1])

\* a * b / c rounded to the nearest integer, sign kept; c > 0; +-Infinity when
\* the result leaves the integers of the model
MulDiv(a, b, c) == Rounded(MulQR(Abs(a), Abs(b), c), c, Sign(a) * Sign(b))

\* the double division a / b at scale S (a, b, result in units of 1/S):
\* x/0 is +-Infinity, 0/0 and anything with NaN is NaN
FDiv(a, b, S) ==
    IF a = NaN \/ b = NaN THEN NaN
    ELSE IF b = 0 THEN (IF a = 0 THEN NaN ELSE IF a > 0 THEN PosInf ELSE NegInf)
    ELSE IF ~IsFinite(a) THEN (IF ~IsFinite(b) THEN NaN
                               ELSE IF (a = PosInf) = (b > 0) THEN PosInf ELSE NegInf)
    ELSE IF ~IsFinite(b) THEN 0
    ELSE MulDiv(a, S, Abs(b)) * Sign(b)

\* the double sum a + b with the tokens; a sum past MaxInt is +-Infinity
FAdd(a, b) ==
    IF a = NaN \/ b = NaN THEN NaN
    ELSE IF ~IsFinite(a) THEN (IF ~IsFinite(b) /\ a # b THEN NaN ELSE a)
    ELSE IF ~IsFinite(b) THEN b
    ELSE IF a > 0 /\ b > 0 /\ a >= PosInf - b THEN PosInf
    ELSE IF a < 0 /\ b < 0 /\ a <= NegInf - b THEN NegInf
    ELSE a + b

\* the double difference a - b with the tokens
FSub(a, b) == FAdd(a, IF b = NaN THEN NaN ELSE 0 - b)

\* the double product a * b at scale S: 0 * Infinity is NaN
FMul(a, b, S) ==
    IF a = NaN \/ b = NaN THEN NaN
    ELSE IF ~IsFinite(a) \/ ~IsFinite(b)
         THEN (IF a = 0 \/ b = 0 THEN NaN
               ELSE IF (a > 0) = (b > 0) THEN PosInf ELSE NegInf)
    ELSE MulDiv(a, b, S)

\* a * b / c for a whole number c >= 0, with the tokens
FMulDiv(a, b, c) ==
    IF c = 0 \/ ~IsFinite(a) \/ ~IsFinite(b) THEN FDiv(FMul(a, b, 1), c, 1)
    ELSE MulDiv(a, b, c)

\* the sum of a list of doubles, left to right, with the tokens
FSumSeq(s) ==
    LET has(v) == \E i \in 1..Len(s) : s[i] = v
    IN  IF has(NaN) \/ (has(PosInf) /\ has(NegInf)) THEN NaN
        ELSE IF has(PosInf) THEN PosInf
        ELSE IF has(NegInf) THEN NegInf
        ELSE SumSeq(s)

\* k * ln 2 in units of 1/S, for a whole number k
LnTwoTimes(k, S) == MulDiv(693147181, k * S, 10^9)

\* sum over odd k of p_k / k, p_k = z^k, the series of 2 atanh z without its factor 2
RECURSIVE LnTerms(_, _, _, _)
LnTerms(p, z2, k, S) ==
    IF p = 0 \/ k > 41 THEN 0
    ELSE RDiv(p, k) + LnTerms(MulDiv(p, z2, S), z2, k + 2, S)

\* 2 atanh z, in units of 1/S
LnSeries(z, S) == 2 * LnTerms(z, MulDiv(z, z, S), 1, S)

\* 2 atanh((x - 1) / (x + 1)) for x in [1, 2), in units of 1/S
LnNear(x, S) == LnSeries(MulDiv(x - S, S \div 2, (x \div 2) + (S \div 2)), S)

\* Math.log of x > 0 (x and the result in units of 1/S): x = 2^k m with m in
\* [1, 2), ln x = k ln 2 + 2 atanh((m - 1) / (m + 1))
FLn(x, S) ==
    LET k == IF x \div 2 >= S
             THEN CHOOSE j \in 1..30 : (x \div 2^j) >= S /\ (x \div 2^j) \div 2 < S
             ELSE IF x < S
             THEN 0 - (CHOOSE j \in 1..30 : x * 2^j >= S /\ x * 2^(j - 1) < S)
             ELSE 0
    IN  LnNear(IF k >= 0 THEN x \div 2^k ELSE x * 2^(0 - k), S) + LnTwoTimes(k, S)

\* acc + sum over k >= n - 1 of f^k / k!, given t = f^(n-1) / (n-1)!
RECURSIVE ExpTerms(_, _, _, _, _)
ExpTerms(acc, t, f, n, S) ==
    IF t = 0 \/ n > 30 THEN acc
    ELSE ExpTerms(acc + t, RDiv(MulDiv(t, f, S), n), f, n + 1, S)

\* y * 2^n for any whole n: rounded for n < 0, +Infinity once it leaves the
\* integers of the model
TimesPowerOfTwo(y, n) ==
    IF n = 0 \/ y = 0 THEN y
    ELSE IF n < 0 THEN (IF n <= 0 - 31 THEN 0 ELSE RDiv(y, 2^(0 - n)))
    ELSE IF n >= 31 \/ y > (MaxInt - 1) \div 2^n THEN PosInf
    ELSE y * 2^n

\* e^x from n = floor(x / ln 2): 2^n * (1 + f + f^2/2! + ...), f = x - n ln 2
ExpParts(x, S, n) == TimesPowerOfTwo(ExpTerms(0, S, x - LnTwoTimes(n, S), 1, S), n)

\* Math.exp of x (x and the result in units of 1/S); exp(0) is exactly 1,
\* below e^-31 the result is less than half a unit, above e^31 it is past
\* the integers of the model
FExp(x, S) ==
    IF x = NaN THEN NaN
    ELSE IF x = PosInf \/ x \div S >= 31 THEN PosInf
    ELSE IF x = NegInf \/ x \div S < 0 - 31 THEN 0
    ELSE ExpParts(x, S, x \div LnTwoTimes(1, S))

\* Newton's iteration for the largest y with y * y <= x * S, downwards from a
\* y that is not below it; q is the quotient of x * S by y
RECURSIVE FSqrtFrom(_, _, _)
FSqrtStep(x, y, S, q) ==
    IF q >= y THEN y ELSE FSqrtFrom(x, q + ((y - q) \div 2), S)

FSqrtFrom(x, y, S) == FSqrtStep(x, y, S, MulQR(x, S, y)[1])

\* the square root of x >= 0 at scale S (units 1/S), rounded down; the start
\* is the product of the successors of the whole roots of x and S
FSqrt(x, S) ==
    IF x = NaN \/ x = NegInf \/ x < 0 THEN NaN
    ELSE IF x = PosInf THEN PosInf
    ELSE IF x = 0 THEN 0
    ELSE FSqrtFrom(x, (ISqrt(x) + 1) * (ISqrt(S) + 1), S)

----------------------------------------------------------------------------
(* simple-statistics: mean, variance, standardDeviation *)

\* mean(x) = sum(x) / x.length; throws on an empty list (callers guard)
mean(x) == RDiv(SumSeq(x), Len(x))

\* variance(x): the population variance, sum of squared deviations / length
variance(x) ==
    LET m == mean(x)
    IN  RDiv(SumSeq([i \in 1..Len(x) |-> (x[i] - m) * (x[i] - m)]), Len(x))

\* standardDeviation(x): 0 for one point, else sqrt(variance(x))
standardDeviation(x) == IF Len(x) = 1 THEN 0 ELSE FSqrt(variance(x), 1)

----------------------------------------------------------------------------
(* AdvancedRiskEngine: construction *)

\* calculateReturns with the divisor taken from the later bar
calculateReturnsWrongBase(d) ==
    List([i \in 1..(IF Len(d) = 0 THEN 0 ELSE Len(d) - 1) |->
            RDiv((d[i + 1].close - d[i].close) * RScale, d[i + 1].close)])

\* calculateReturns(): for i = 1 .. length-1 push (close[i]-close[i-1])/close[i-1]
calculateReturns(d) ==
    List([i \in 1..(IF Len(d) = 0 THEN 0 ELSE Len(d) - 1) |->
            RDiv((d[i + 1].close - d[i].close) * RScale, d[i].close)])

\* what an operation leaves in `result` when it throws
Throw(msg) == [kind |-> "throw", error |-> msg]

----------------------------------------------------------------------------
(* AdvancedRiskEngine.calculateGARCH *)

GarchOmega == 1000      \* omega = 0.00001, in units of 1/RScale^2

GarchAlphaPct == 8      \* alpha = 0.08

GarchBetaPct == 91      \* beta = 0.91

\* the recursion with the sign of the persistence term slipped
GarchStepSignSlip(h, r) ==
    GarchOmega + RDiv(GarchAlphaPct * r * r, 100) - RDiv(GarchBetaPct * h, 100)

\* conditionalVariance = omega + alpha * r^2 + beta * conditionalVariance
GarchStep(h, r) ==
    GarchOmega + RDiv(GarchAlphaPct * r * r, 100) + RDiv(GarchBetaPct * h, 100)

\* the conditional variances of iterations lo .. hi of the loop, h the value
\* of conditionalVariance when iteration lo starts: iteration 1 keeps it,
\* iteration i > 1 sets it to GarchStep(h, returns[i-1]).  The range is run
\* in two halves, the second from where the first ended.
RECURSIVE GarchRun(_, _, _, _)
GarchRun(rets, h, lo, hi) ==
    IF lo = hi THEN << IF lo = 1 THEN h ELSE GarchStep(h, rets[lo - 1]) >>
    ELSE LET mid   == (lo + hi) \div 2
             first == GarchRun(rets, h, lo, mid)
         IN  first \o GarchRun(rets, first[Len(first)], mid + 1, hi)

\* calculateGARCH(): variance() throws on an empty series; `variance` is the
\* path of conditionalVariance, which the program keeps in a local
calculateGARCH(rets) ==
    IF rets = <<>> THEN Throw("variance requires at least one data point")
    ELSE LET n    == Len(rets)
             path == GarchRun(rets, variance(rets), 1, n)
         IN  [kind        |-> "garch",
              variance    |-> path,
              volatility  |-> List([i \in 1..n |-> FSqrt(path[i], 1)]),
              forecastVar |-> GarchStep(path[n], rets[n]),
              forecast    |-> FSqrt(GarchStep(path[n], rets[n]), 1)]

\* marketData.slice(-30): the bars the volatility chart shows
ChartBars == 30

\* volatilityData of the dashboards: one row for each of the last ChartBars
\* bars, its volatility read from the GARCH path at marketData.length - 30 +
\* index and multiplied by 100; reading past either end of an array gives
\* undefined, and undefined * 100 is NaN
volatilityData(marketData, garch) ==
    IF marketData = <<>> THEN <<>>
    ELSE LET shown == Min(Len(marketData), ChartBars)
         IN  List([k \in 1..shown |->
                     LET at == Len(marketData) - ChartBars + (k - 1)
                     IN  [price      |-> marketData[Len(marketData) - shown + k].close,
                          volatility |-> IF at >= 0 /\ at < Len(garch.volatility)
                                         THEN FMul(garch.volatility[at + 1], 100, 1)
                                         ELSE NaN]])

----------------------------------------------------------------------------
(* AdvancedRiskEngine.calculateVaR, calculateExpectedShortfall *)

Micro == 10^6   \* confidence levels and z-scores are counted in millionths

\* the smallest member of a non-empty set of numbers
SetMin(S) == CHOOSE m \in S : \A v \in S : m <= v

\* the members of a finite set of numbers, ascending
Ascending(S) ==
    List([k \in 1..Cardinality(S) |->
            CHOOSE v \in S : Cardinality({x \in S : x < v}) = k - 1])

\* a list left as it is, not sorted
Unsorted(s) == s

\* [...xs].sort((a, b) => a - b): a sorted copy, ascending; place k holds the
\* least value that at least k entries do not exceed
SortAsc(s) ==
    LET vals == Ascending({s[i] : i \in 1..Len(s)})
        upto == List([j \in 1..Len(vals) |->
                        Cardinality({i \in 1..Len(s) : s[i] <= vals[j]})])
    IN  List([k \in 1..Len(s) |->
                vals[CHOOSE j \in 1..Len(vals) : upto[j] >= k /\ (j = 1 \/ upto[j - 1] < k)]])

\* the coefficients of inverseNormal, in millionths (index 0 of the program's
\* arrays is unused)
InvNormA == << -39696830, 220946098, -275928510, 138357752, -30664798, 2506628 >>

InvNormB == << -54476099, 161585837, -155698980, 66801312, -13280682 >>

InvNormC == << -7785, -322396, -2400758, -2549733, 4374664, 2938164 >>

InvNormD == << 7785, 322467, 2445134, 3754409 >>

PLow == 24250   \* pLow = 0.02425

\* Horner's rule from the value acc of the first i - 1 coefficients:
\* (...(k[1] * x + k[2]) * x + ...) * x + k[n], in units of 1/S
RECURSIVE HornerFrom(_, _, _, _, _)
HornerFrom(acc, k, i, x, S) ==
    IF i > Len(k) \/ ~IsFinite(acc) THEN acc
    ELSE HornerFrom(FAdd(FMul(acc, x, S), k[i]), k, i + 1, x, S)

Horner(k, x, S) == HornerFrom(k[1], k, 2, x, S)

\* numerator / denominator of the tail branches, q = sqrt(-2 ln p)
InvNormTail(q) ==
    FDiv(Horner(InvNormC, q, Micro), FAdd(FMul(Horner(InvNormD, q, Micro), q, Micro), Micro), Micro)

\* the central branch, q = p - 0.5 and r = q * q
InvNormCentral(q, r) ==
    FDiv(FMul(Horner(InvNormA, r, Micro), q, Micro),
         FAdd(FMul(Horner(InvNormB, r, Micro), r, Micro), Micro), Micro)

\* inverseNormal(p), p and the result in millionths
inverseNormal(p) ==
    IF p < PLow THEN InvNormTail(FSqrt(0 - 2 * FLn(p, Micro), Micro))
    ELSE IF p <= Micro - PLow
    THEN InvNormCentral(p - Micro \div 2, MulDiv(p - Micro \div 2, p - Micro \div 2, Micro))
    ELSE 0 - InvNormTail(FSqrt(0 - 2 * FLn(Micro - p, Micro), Micro))

\* the index taken from the confidence level itself instead of 1 - level
TailIndexFromLevel(c, n) == IF n = 0 THEN 0 ELSE Min((c * n) \div Micro, n - 1)

\* index = Math.floor((1 - confidenceLevel) * sortedReturns.length).  The
\* double of 0.9 lies above 0.9, so 1 - 0.9 lies below 0.1 and a product with
\* n > 0 that would be a whole number falls just short of it; the doubles of
\* the other levels of ConfLevels lie below the decimal written.
TailIndex(c, n) ==
    LET exact == (Micro - c) * n
    IN  IF exact > 0 /\ exact % Micro = 0 /\ c = 900000 THEN (exact \div Micro) - 1
        ELSE exact \div Micro

\* historicalVaR = -sortedReturns[index]   (sequences count from 1)
HistoricalVaR(rets, c) == 0 - SortAsc(rets)[TailIndex(c, Len(rets)) + 1]

\* parametricVaR = -(meanReturn + zScore * stdDev) * Math.sqrt(horizon)
ParametricVaR(rets, c, horizon) ==
    LET base == 0 - (mean(rets) + MulDiv(inverseNormal(c), standardDeviation(rets), Micro))
    IN  MulDiv(base, FSqrt(horizon * Micro, Micro), Micro)

\* return Math.max(parametricVaR, historicalVaR), kept with its two parts
LargerVaR(historicalVaR, parametricVaR) ==
    [kind       |-> "var",
     historical |-> historicalVaR,
     parametric |-> parametricVaR,
     value      |-> Max(parametricVaR, historicalVaR)]

\* calculateVaR(confidenceLevel, horizon): mean() throws on an empty series
calculateVaR(rets, c, horizon) ==
    IF rets = <<>> THEN Throw("mean requires at least one data point")
    ELSE LargerVaR(HistoricalVaR(rets, c), ParametricVaR(rets, c, horizon))

\* calculateExpectedShortfall(confidenceLevel): minus the mean of the cutoff
\* worst returns; mean() throws when the cutoff is 0
calculateExpectedShortfall(rets, c) ==
    LET cutoff == TailIndex(c, Len(rets))
    IN  IF cutoff = 0 THEN Throw("mean requires at least one data point")
        ELSE [kind |-> "es", value |-> 0 - mean(SubSeq(SortAsc(rets), 1, cutoff))]

----------------------------------------------------------------------------
(* AdvancedRiskEngine.calculateAdvancedRiskMetrics and its helpers *)

\* Math.pow(z, k) for k = 3 or 4
Power(z, k) ==
    LET z2 == FMul(z, z, RScale)
    IN  FMul(z2, IF k = 3 THEN z ELSE z2, RScale)

\* the sum over the data of ((val - mean) / stdDev) ^ k, k = 3 or 4
PowerSum(d, k) ==
    LET meanVal == mean(d)
        stdDev  == standardDeviation(d)
    IN  FSumSeq(List([i \in 1..Len(d) |-> Power(FDiv(d[i] - meanVal, stdDev, RScale), k)]))

\* (n / ((n - 1) * (n - 2))) * skewSum
calculateSkewness(d) ==
    LET n == Len(d)
    IN  FMulDiv(PowerSum(d, 3), n, (n - 1) * (n - 2))

\* (n (n + 1) / ((n - 1)(n - 2)(n - 3))) * kurtSum - 3 (n - 1)^2 / ((n - 2)(n - 3))
calculateKurtosis(d) ==
    LET n == Len(d)
    IN  FSub(FMulDiv(PowerSum(d, 4), n * (n + 1), (n - 1) * (n - 2) * (n - 3)),
             FMulDiv(3 * (n - 1) * (n - 1), RScale, (n - 2) * (n - 3)))

\* cumulativeReturns of iterations lo .. hi, in millionths, w the entry before
\* lo (1 before the first): each entry is the one before times (1 + ret)
RECURSIVE WealthRun(_, _, _, _)
WealthRun(rets, w, lo, hi) ==
    IF lo = hi THEN << FMul(w, Micro + rets[lo] * (Micro \div RScale), Micro) >>
    ELSE LET mid   == (lo + hi) \div 2
             first == WealthRun(rets, w, lo, mid)
         IN  first \o WealthRun(rets, first[Len(first)], mid + 1, hi)

\* the largest member of a non-empty set of numbers
SetMax(S) == CHOOSE m \in S : \A v \in S : v <= m

\* the loop of calculateMaxDrawdown over cum = cumulativeReturns: at entry i
\* the peak is the largest entry so far, the drawdown is (peak - entry) / peak,
\* and the result is the largest drawdown from the second entry on, 0 if none
LargestDrawdown(cum) ==
    LET peak == List([i \in 1..Len(cum) |-> SetMax({cum[j] : j \in 1..i})])
    IN  SetMax({0} \cup {FDiv(peak[i] - cum[i], peak[i], Micro) : i \in 2..Len(cum)})

\* calculateMaxDrawdown(), in millionths
calculateMaxDrawdown(rets) == LargestDrawdown(WealthRun(rets, Micro, 1, Len(rets)))

\* calculateCovariance(x, y): the sum of the products of the deviations over
\* the first min(length) entries, divided by n - 1
calculateCovariance(x, y) ==
    LET n     == Min(Len(x), Len(y))
        meanX == mean(x)
        meanY == mean(y)
    IN  FDiv(SumSeq([i \in 1..n |-> (x[i] - meanX) * (y[i] - meanY)]), n - 1, 1)

\* riskFreeRate = 0.02 / 252, to the nearest unit of 1/RScale
RiskFreeDaily == RDiv(2 * RScale, 100 * 252)

TradingDays == 252

\* the optional argument of calculateAdvancedRiskMetrics, when left out
NoBenchmark == [given |-> FALSE]

Benchmark(b) == [given |-> TRUE, returns |-> b]

\* if (benchmarkReturns && benchmarkReturns.length === returns.length)
BenchmarkUsed(rets, bench) == bench.given /\ Len(bench.returns) = Len(rets)

\* the fields of the RiskMetrics interface
RiskMetricsFields ==
    {"var95", "var99", "expectedShortfall95", "expectedShortfall99", "volatility",
     "skewness", "kurtosis", "sharpeRatio", "maxDrawdown", "beta", "alpha"}

\* calculateAdvancedRiskMetrics(benchmarkReturns): returns in 1/RScale,
\* maxDrawdown in millionths; the first mean() throws on an empty series and
\* the expected shortfalls of the returned object throw when their tail is empty
calculateAdvancedRiskMetrics(rets, bench) ==
    IF rets = <<>> THEN Throw("mean requires at least one data point")
    ELSE LET meanReturn == mean(rets)
             vol        == standardDeviation(rets)
             excess     == List([i \in 1..Len(rets) |-> rets[i] - RiskFreeDaily])
             sharpe     == FDiv(mean(excess), standardDeviation(excess), RScale)
             rootDays   == FSqrt(TradingDays * RScale, RScale)
             used       == BenchmarkUsed(rets, bench)
             beta       == IF used
                           THEN FDiv(calculateCovariance(rets, bench.returns),
                                     variance(bench.returns), RScale)
                           ELSE RScale
             alpha      == IF used
                           THEN FSub(meanReturn, FMul(beta, mean(bench.returns), RScale))
                           ELSE 0
             es95       == calculateExpectedShortfall(rets, 950000)
             es99       == calculateExpectedShortfall(rets, 990000)
         IN  IF es95.kind = "throw" THEN es95
             ELSE IF es99.kind = "throw" THEN es99
             ELSE [kind                |-> "metrics",
                   var95               |-> calculateVaR(rets, 950000, 1).value,
                   var99               |-> calculateVaR(rets, 990000, 1).value,
                   expectedShortfall95 |-> es95.value,
                   expectedShortfall99 |-> es99.value,
                   volatility          |-> FMul(vol, rootDays, RScale),
                   skewness            |-> calculateSkewness(rets),
                   kurtosis            |-> calculateKurtosis(rets),
                   sharpeRatio         |-> FMul(sharpe, rootDays, RScale),
                   maxDrawdown         |-> calculateMaxDrawdown(rets),
                   beta                |-> beta,
                   alpha               |-> FMul(alpha, TradingDays, 1)]

----------------------------------------------------------------------------
(* AdvancedRiskEngine.calculateVolumeProfile *)

\* Math.floor((typicalPrice - minPrice) / levelSize) for one candle, with
\* typicalPrice = (high + low + close) / 3 and levelSize = priceRange /
\* priceLevels.  A zero range divides 0 by 0 (NaN); zero priceLevels make the
\* level size Infinity, and every quotient 0.
LevelOf(candle, minPrice, priceRange, priceLevels) ==
    IF priceRange = 0 THEN NaN
    ELSE IF priceLevels = 0 THEN 0
    ELSE (((candle.high + candle.low + candle.close) - 3 * minPrice) * priceLevels)
            \div (3 * priceRange)

\* the forEach loop storing the candle's volume instead of adding it
VolumeAtLastOnly(d, levels, lv) ==
    d[CHOOSE i \in 1..Len(d) :
        levels[i] = lv /\ \A j \in (i + 1)..Len(d) : levels[j] # lv].volume

\* volumeByLevel[lv] after the forEach loop: each candle's volume is added to
\* the entry of the candle's level
VolumeAt(d, levels, lv) ==
    SumSeq([i \in 1..Len(d) |-> IF levels[i] = lv THEN d[i].volume ELSE 0])

\* volumeByLevel as Object.keys lists it: whole-number keys ascending (the key
\* NaN only ever stands alone), each with its accumulated volume
VolumeByLevel(d, levels) ==
    LET keys == Ascending({levels[i] : i \in 1..Len(d)})
    IN  List([k \in 1..Len(keys) |->
                [level |-> keys[k], volume |-> VolumeAt(d, levels, keys[k])]])

\* the bins of the history d for priceLevels levels
BinsOf(d, priceLevels) ==
    LET minPrice   == SetMin({d[i].low : i \in 1..Len(d)})
        priceRange == SetMax({d[i].high : i \in 1..Len(d)}) - minPrice
    IN  VolumeByLevel(d, List([i \in 1..Len(d) |->
                                 LevelOf(d[i], minPrice, priceRange, priceLevels)]))

\* totalVolume: the sum of Object.values(volumeByLevel)
TotalVolume(bins) == SumSeq([k \in 1..Len(bins) |-> bins[k].volume])

\* the reduce keeping the key of the smaller volume
PocIndexSmallest(bins) ==
    CHOOSE i \in 1..Len(bins) : \A j \in 1..Len(bins) : bins[i].volume <= bins[j].volume

\* pocLevel: the reduce over the keys keeps the held key only while its volume
\* is strictly larger than the next key's, so the last of the largest wins
PocIndex(bins) ==
    CHOOSE i \in 1..Len(bins) :
        /\ \A j \in 1..Len(bins) : bins[j].volume <= bins[i].volume
        /\ \A j \in (i + 1)..Len(bins) : bins[j].volume < bins[i].volume

\* sortedLevels: the keys sorted by descending volume; the sort is stable, so
\* equal volumes stay in key order
SortedLevels(bins) ==
    LET rank == List([i \in 1..Len(bins) |->
                        Cardinality({j \in 1..Len(bins) :
                            \/ bins[j].volume > bins[i].volume
                            \/ (bins[j].volume = bins[i].volume /\ j < i)}) + 1])
    IN  List([k \in 1..Len(bins) |-> bins[CHOOSE i \in 1..Len(bins) : rank[i] = k]])

\* the break test with > for >=
ValueAreaFullStrict(valueAreaVolume, totalVolume) ==
    10 * valueAreaVolume > 7 * totalVolume

\* the break test of the value-area loop, valueAreaVolume >= totalVolume * 0.7
\* (for whole volumes the double product decides as the exact one does)
ValueAreaFull(valueAreaVolume, totalVolume) ==
    10 * valueAreaVolume >= 7 * totalVolume

\* how many of the sorted levels the loop pushes: up to and including the
\* first at which the break test holds, all of them if it never does
ValueAreaCount(sorted, totalVolume) ==
    LET full(k) == ValueAreaFull(SumRange([i \in 1..Len(sorted) |-> sorted[i].volume], 1, k),
                                 totalVolume)
    IN  IF \E k \in 1..Len(sorted) : full(k)
        THEN CHOOSE k \in 1..Len(sorted) : full(k) /\ \A j \in 1..(k - 1) : ~full(j)
        ELSE Len(sorted)

\* valueAreaLevels with their volumes, in the order the loop pushed them
ValueAreaLevels(bins) ==
    SubSeq(SortedLevels(bins), 1, ValueAreaCount(SortedLevels(bins), TotalVolume(bins)))

\* level * levelSize + minPrice, in units of 1/RScale
PriceOfLevel(level, levelSize, minPrice) ==
    FAdd(FMul(level, levelSize, 1), minPrice * RScale)

\* the returned array: one entry per key, in key order; percentage in
\* millionths of a percent
ProfileEntries(bins, totalVolume, levelSize, minPrice, areaLevels) ==
    List([k \in 1..Len(bins) |->
            [priceLevel     |-> PriceOfLevel(bins[k].level, levelSize, minPrice),
             volume         |-> bins[k].volume,
             percentage     |-> FMul(FDiv(bins[k].volume, totalVolume, Micro), 100, 1),
             poc            |-> k = PocIndex(bins),
             valueAreaHigh  |-> PriceOfLevel(SetMax(areaLevels), levelSize, minPrice),
             valueAreaLow   |-> PriceOfLevel(SetMin(areaLevels), levelSize, minPrice)]])

\* calculateVolumeProfile(priceLevels); on an empty history the reduce that
\* finds pocLevel throws
calculateVolumeProfile(d, priceLevels) ==
    IF d = <<>> THEN Throw("Reduce of empty array with no initial value")
    ELSE LET minPrice   == SetMin({d[i].low : i \in 1..Len(d)})
             priceRange == SetMax({d[i].high : i \in 1..Len(d)}) - minPrice
             bins       == BinsOf(d, priceLevels)
             area       == ValueAreaLevels(bins)
         IN  [kind    |-> "profile",
              entries |-> ProfileEntries(bins, TotalVolume(bins),
                                         FDiv(priceRange * RScale, priceLevels, 1), minPrice,
                                         {area[k].level : k \in 1..Len(area)})]

----------------------------------------------------------------------------
(* AdvancedRiskEngine.monteCarloSimulation *)

\* the values boxMullerRandom returns in the model, in millionths: -3, -2,
\* -0.5, 0, 0.5, 2, 3 (the program rejects the uniform draw 0, so every
\* shock is finite)
ShockValues == << -3000000, -2000000, -500000, 0, 500000, 2000000, 3000000 >>

\* which of the ShockValues draw number i of the random source is.  The
\* source repeats after ShockPeriod draws; in each period one draw is the
\* lowest value, two the next, two the second highest, one the highest.
ShockClass(i) ==
    LET r == i % ShockPeriod
    IN  IF r = 0 THEN 1
        ELSE IF r <= 2 THEN 2
        ELSE IF r = ShockPeriod - 1 THEN 7
        ELSE IF r >= ShockPeriod - 3 THEN 6
        ELSE 3 + (r % 3)

\* the step with the diffusion not scaled by sigma
StepGainUnscaled(mu, sigma, randomShock) ==
    FExp(RDiv(mu - MulDiv(sigma, sigma, 2 * Micro), TradingDays)
            + MulDiv(FSqrt(RDiv(Micro, TradingDays), Micro), randomShock, Micro), Micro)

\* Math.exp(drift + diffusion) for one day, in millionths, with
\* drift = (mu - 0.5 * sigma * sigma) * dt, diffusion = sigma * Math.sqrt(dt)
\* * randomShock and dt = 1 / 252 (mu, sigma in millionths)
StepGain(mu, sigma, randomShock) ==
    FExp(RDiv(mu - MulDiv(sigma, sigma, 2 * Micro), TradingDays)
            + MulDiv(MulDiv(sigma, FSqrt(RDiv(Micro, TradingDays), Micro), Micro),
                     randomShock, Micro), Micro)

\* the inner loop: the price after `days` more days, the next draw being
\* number `draw`; gains[j] is the step for ShockValues[j]
RECURSIVE PathEnd(_, _, _, _)
PathEnd(price, gains, draw, days) ==
    IF days <= 0 THEN price
    ELSE PathEnd(FMul(price, gains[ShockClass(draw)], Micro), gains, draw + 1, days - 1)

\* floor(q * simulations) for q = permille / 1000 (for the four q used the
\* double product has the floor of the exact one up to 5000 simulations)
QuantileIndexTenfold(permille, simulations) ==
    Min((10 * permille * simulations) \div 1000, simulations - 1)

QuantileIndex(permille, simulations) == (permille * simulations) \div 1000

\* the returned MonteCarloResult, from the sorted finalPrices; indices are
\* moved by one, sequences starting at 1
MonteCarloResultOf(finalPrices, simulations, targetPrice) ==
    LET probability ==
            FDiv(Cardinality({i \in 1..Len(finalPrices) : finalPrices[i] < targetPrice}),
                 simulations, Micro)
    IN  [kind                |-> "monteCarlo",
         scenarios           |-> finalPrices,
         probabilities       |-> << probability, FSub(Micro, probability) >>,
         confidenceIntervals |->
             [ci95 |-> << finalPrices[QuantileIndex(25, simulations) + 1],
                          finalPrices[QuantileIndex(975, simulations) + 1] >>,
              ci99 |-> << finalPrices[QuantileIndex(5, simulations) + 1],
                          finalPrices[QuantileIndex(995, simulations) + 1] >>],
         expectedReturn      |-> mean(finalPrices),
         worstCase           |-> finalPrices[1],
         bestCase            |-> finalPrices[Len(finalPrices)]]

\* finalPrices before the sort.  Simulation sim takes the draws seed +
\* sim * days onwards; paths that start at the same place of the period end
\* at the same price, so the end is computed once per place.
FinalPrices(gains, currentPrice, days, simulations, seed) ==
    LET ends == List([k \in 1..ShockPeriod |-> PathEnd(currentPrice, gains, k - 1, days)])
    IN  List([sim \in 1..simulations |-> ends[((seed + (sim - 1) * days) % ShockPeriod) + 1]])

\* finalPrices as the outer loop has pushed them, from the engine's returns
PushedPrices(rets, currentPrice, days, simulations, seed) ==
    FinalPrices(List([j \in 1..Len(ShockValues) |->
                        StepGain(mean(rets) * (Micro \div RScale),
                                 standardDeviation(rets) * (Micro \div RScale),
                                 ShockValues[j])]),
                currentPrice, days, simulations, seed)

\* monteCarloSimulation(currentPrice, days, simulations, targetDecline) with
\* the random source started at draw number seed; prices in units of
\* 1/RScale, targetDecline in millionths; mean throws on an empty series:
\* that of the returns at the start, or that of finalPrices, which is
\* empty when simulations is not positive, when the result is built
monteCarloSimulation(rets, currentPrice, days, simulations, targetDecline, seed) ==
    IF rets = <<>> \/ simulations < 1 THEN Throw("mean requires at least one data point")
    ELSE MonteCarloResultOf(
            SortAsc(PushedPrices(rets, currentPrice, days, simulations, seed)),
            simulations,
            FMul(currentPrice, Micro - targetDecline, Micro))

----------------------------------------------------------------------------
(* OptionsAnalyzer: Black-Scholes *)

\* Stock and strike prices are whole dollars; times, volatilities, rates and
\* d1, d2 are in millionths.  normalCDF counts in units of 1/CdfUnit, and an
\* option price is a pair << w, p >> standing for w + p / CdfUnit dollars,
\* 0 <= p < CdfUnit, so that a product of a price and a probability is exact.
CdfUnit == 2 * 10^9

\* a + b and a - b on such pairs
MoneyAdd(a, b) == << a[1] + b[1] + AddQR(a[2], b[2], CdfUnit)[1], AddQR(a[2], b[2], CdfUnit)[2] >>

MoneySub(a, b) ==
    IF b[2] = 0 THEN MoneyAdd(a, << 0 - b[1], 0 >>)
    ELSE MoneyAdd(a, << (0 - b[1]) - 1, CdfUnit - b[2] >>)

\* a * n / CdfUnit for a pair a >= 0 and a probability n; the product of the
\* fraction is rounded to the nearest unit
MoneyTimes(a, n) == MoneyAdd(MulQR(a[1], n, CdfUnit), << 0, MulDiv(a[2], n, CdfUnit) >>)

\* |a| in units of 1/CdfUnit dollars, for |a| < 1 dollar; CdfUnit otherwise
MoneySize(a) ==
    IF a[1] = 0 THEN a[2]
    ELSE IF a[1] = 0 - 1 /\ a[2] > 0 THEN CdfUnit - a[2]
    ELSE CdfUnit

\* calculateD1: (ln(S / K) + (r + 0.5 * v * v) * T) / (v * sqrt(T)).  For a
\* volatility above 40, whose square leaves the model's integers (not the
\* doubles), the term 0.5 * v * v * T / (v * sqrt(T)) is taken as
\* 0.5 * v * sqrt(T).
calculateD1(stockPrice, strikePrice, timeToExpiry, volatility, r) ==
    IF IsFinite(volatility) /\ volatility > 40 * Micro
    THEN FAdd(FDiv(FAdd(FLn(FDiv(stockPrice, strikePrice, Micro), Micro),
                        FMul(r, timeToExpiry, Micro)),
                   FMul(volatility, FSqrt(timeToExpiry, Micro), Micro), Micro),
              FMul(volatility, FSqrt(timeToExpiry, Micro), 2 * Micro))
    ELSE FDiv(FAdd(FLn(FDiv(stockPrice, strikePrice, Micro), Micro),
                   FMul(FAdd(r, FMul(volatility, volatility, 2 * Micro)), timeToExpiry, Micro)),
              FMul(volatility, FSqrt(timeToExpiry, Micro), Micro), Micro)

\* a5 .. a1 of normalCDF, in units of 10^-9
NormalCdfA == << 1061405429, -1453152027, 1421413741, -284496736, 254829592 >>

\* (((((a5 * t + a4) * t) + a3) * t + a2) * t + a1) * t * e in units of
\* 10^-9, for t in units of 10^-9 and e = Math.exp(-x * x) in millionths
NormalCdfTail(t, e) ==
    MulDiv(MulDiv(Horner(NormalCdfA, t, 10^9), t, 10^9), e, Micro)

\* normalCDF(x) = 0.5 * (1 + sign * y), sign = x >= 0 ? 1 : -1,
\* t = 1 / (1 + p * |x|), y = 1 - (...) * t * exp(-x * x); in units of
\* 1/CdfUnit the result is 10^9 + sign * y for y in units of 10^-9
normalCDF(x) ==
    IF x = NaN THEN NaN
    ELSE 10^9 + (IF x >= 0 THEN 1 ELSE 0 - 1)
                  * (10^9 - NormalCdfTail(
                               IF Abs(x) = PosInf THEN 0
                               ELSE MulDiv(10^9, Micro, Micro + MulDiv(3275911, Abs(x), 10^7)),
                               FExp(FSub(0, FMul(Abs(x), Abs(x), Micro)), Micro)))

\* strikePrice * Math.exp(-riskFreeRate * timeToExpiry), as a pair
DiscountedStrike(strikePrice, timeToExpiry, r) ==
    LET x == MulQR(strikePrice, FExp(0 - MulDiv(r, timeToExpiry, Micro), Micro), Micro)
    IN  << x[1], x[2] * (CdfUnit \div Micro) >>

\* the two return statements of calculateBlackScholes, from d1 and d2; a NaN
\* price is the pair << NaN, 0 >>
BlackScholesOf(stockPrice, strike, d1, d2, optionType) ==
    IF d1 = NaN \/ d2 = NaN THEN << NaN, 0 >>
    ELSE IF optionType = "call"
    THEN MoneySub(MoneyTimes(<< stockPrice, 0 >>, normalCDF(d1)),
                  MoneyTimes(strike, normalCDF(d2)))
    ELSE MoneySub(MoneyTimes(strike, normalCDF(FSub(0, d2))),
                  MoneyTimes(<< stockPrice, 0 >>, normalCDF(FSub(0, d1))))

\* d2 = d1 - volatility * Math.sqrt(timeToExpiry)
BlackScholesAt(stockPrice, strikePrice, timeToExpiry, volatility, optionType, r, d1) ==
    BlackScholesOf(stockPrice, DiscountedStrike(strikePrice, timeToExpiry, r), d1,
                   FSub(d1, FMul(volatility, FSqrt(timeToExpiry, Micro), Micro)), optionType)

\* calculateBlackScholes(stockPrice, strikePrice, timeToExpiry, volatility,
\* optionType) of an analyzer whose riskFreeRate is r
calculateBlackScholes(stockPrice, strikePrice, timeToExpiry, volatility, optionType, r) ==
    BlackScholesAt(stockPrice, strikePrice, timeToExpiry, volatility, optionType, r,
                   calculateD1(stockPrice, strikePrice, timeToExpiry, volatility, r))

----------------------------------------------------------------------------
(* OptionsAnalyzer: implied volatility *)

\* Math.exp(-x) is 0 in doubles once x exceeds 1075 ln 2, in millionths
ExpUnderflow == 745133000

\* ln of stockPrice * normalPDF(d1) * Math.sqrt(timeToExpiry), in millionths,
\* with normalPDF(x) = Math.exp(-0.5 * x * x) / Math.sqrt(2 * Math.PI).  The
\* logarithm keeps a vega far below one millionth apart from a vega that is
\* exactly 0 (-Infinity here), which it is when the exponential or the
\* product underflows.
VegaLnOf(stockPrice, timeToExpiry, h) ==
    IF h = NaN THEN NaN
    ELSE IF h > ExpUnderflow \/ timeToExpiry = 0 THEN NegInf
    ELSE IF FLn(stockPrice * Micro, Micro) + (FLn(timeToExpiry, Micro) \div 2)
                - (h + FLn(FSqrt(6283185, Micro), Micro)) < 0 - ExpUnderflow THEN NegInf
    ELSE FLn(stockPrice * Micro, Micro) + (FLn(timeToExpiry, Micro) \div 2)
                - (h + FLn(FSqrt(6283185, Micro), Micro))

\* ln of calculateVega(stockPrice, strikePrice, timeToExpiry, volatility);
\* h is 0.5 * d1 * d1
calculateVegaLn(stockPrice, strikePrice, timeToExpiry, volatility, r) ==
    VegaLnOf(stockPrice, timeToExpiry,
             FMul(calculateD1(stockPrice, strikePrice, timeToExpiry, volatility, r),
                  calculateD1(stockPrice, strikePrice, timeToExpiry, volatility, r),
                  2 * Micro))

InitialVolatility == 200000     \* let volatility = 0.2

MaxIterations == 100            \* const maxIterations = 100

MinVolatility == 1000           \* if (volatility < 0.001) volatility = 0.001

\* const tolerance = 1e-6, in units of 1/CdfUnit dollars
Tolerance == CdfUnit \div Micro

\* a price difference in millionths of a dollar, rounded
DiffMicro(diff) == diff[1] * Micro + RDiv(diff[2], CdfUnit \div Micro)

\* ln of the largest double, 1.797e308, in millionths
LnMaxDouble == 709782712

\* a volatility that is a finite double beyond the integers of the model
\* (the solver keeps its logarithm)
Huge == MaxInt - 1

\* ln |diff / vega|, in millionths
StepLn(diff, vegaLn) == FLn(Abs(diff), Micro) - vegaLn

\* the floor of 0.001 put under the new volatility; a new volatility past
\* the integers of the model whose step is not past the largest double is
\* Huge, not Infinity
ClampedStep(next, stepLn) ==
    IF next # NaN /\ next < MinVolatility THEN MinVolatility
    ELSE IF next # NaN /\ next >= Huge /\ stepLn <= LnMaxDouble THEN Huge
    ELSE next

\* volatility - diff / vega, then the floor of 0.001; diff / vega is formed
\* from the logarithms, with the sign of diff
NewtonUpdate(volatility, diff, vegaLn) ==
    IF vegaLn = NaN THEN NaN
    ELSE ClampedStep(FSub(volatility,
                          FMul(Sign(diff), FExp(StepLn(diff, vegaLn), Micro), 1)),
                     StepLn(diff, vegaLn))

\* the loop allowed one pass more than maxIterations
SteppedOnceMore(s, next, stepLn) ==
    [status     |-> IF s.i + 1 >= MaxIterations + 1 THEN "exhausted" ELSE "running",
     i          |-> s.i + 1,
     volatility |-> next,
     ln         |-> IF next = Huge THEN stepLn ELSE 0]

\* the loop variables after a pass that updated the volatility to next
Stepped(s, next, stepLn) ==
    [status     |-> IF s.i + 1 >= MaxIterations THEN "exhausted" ELSE "running",
     i          |-> s.i + 1,
     volatility |-> next,
     ln         |-> IF next = Huge THEN stepLn ELSE 0]

\* << d1, d2 >> of calculateBlackScholes for a Huge volatility of logarithm
\* ln: v * sqrt(T) is Infinity if it passes the largest double, and so is
\* the numerator if 0.5 * v * v * T does; d1 is then Infinity / Infinity =
\* NaN, or Infinity with d2 = Infinity; otherwise d1 is about 0.5 * v *
\* sqrt(T), at which normalCDF is 1 and normalPDF 0 as at Infinity, and d2
\* about -0.5 * v * sqrt(T)
HugeD1(ln, timeToExpiry) ==
    IF 2 * ln + FLn(timeToExpiry \div 2, Micro) > LnMaxDouble \/ 2 * ln > LnMaxDouble
    THEN (IF ln + FLn(timeToExpiry, Micro) \div 2 > LnMaxDouble THEN << NaN, NaN >>
          ELSE << PosInf, PosInf >>)
    ELSE << PosInf, NegInf >>

\* the rest of one pass of the loop once price is known: return when
\* |price - marketPrice| < tolerance, break when vega === 0, update otherwise;
\* a NaN price makes diff, and then the volatility, NaN.  The loop ends
\* when i reaches maxIterations.  The volatility is carried in millionths,
\* which is coarser than a double: near a root where the doubles get within
\* the tolerance the millionths may keep stepping between neighbours until
\* the passes run out, and where the doubles creep towards a root for all
\* 100 passes the millionths may get there a few passes earlier; the pass
\* at which the loop is left can so differ from the doubles', the branch
\* structure of a pass cannot.
SolverPass(s, price, marketPrice, vegaLn) ==
    IF price[1] # NaN /\ MoneySize(MoneySub(price, marketPrice)) < Tolerance
    THEN [s EXCEPT !.status = "converged"]
    ELSE IF price[1] # NaN /\ vegaLn = NegInf
    THEN [s EXCEPT !.status = "zero vega"]
    ELSE Stepped(s,
                 IF price[1] = NaN THEN NaN
                 ELSE NewtonUpdate(s.volatility,
                                   DiffMicro(MoneySub(price, marketPrice)), vegaLn),
                 StepLn(DiffMicro(MoneySub(price, marketPrice)), vegaLn))

\* one pass of the loop of calculateImpliedVolatility from the loop
\* variables s
SolverStep(s, marketPrice, stockPrice, strikePrice, timeToExpiry, optionType, r) ==
    IF s.volatility = Huge
    THEN SolverPass(s,
                    BlackScholesOf(stockPrice, DiscountedStrike(strikePrice, timeToExpiry, r),
                                   HugeD1(s.ln, timeToExpiry)[1],
                                   HugeD1(s.ln, timeToExpiry)[2], optionType),
                    marketPrice,
                    IF HugeD1(s.ln, timeToExpiry)[1] = NaN THEN NaN ELSE NegInf)
    ELSE SolverPass(s,
                    calculateBlackScholes(stockPrice, strikePrice, timeToExpiry,
                                          s.volatility, optionType, r),
                    marketPrice,
                    calculateVegaLn(stockPrice, strikePrice, timeToExpiry, s.volatility, r))

----------------------------------------------------------------------------
(* MultiApiService and MarketDataService: caches and providers *)

\* CACHE_DURATION = 5 * 60 * 1000 of both services, in milliseconds
CacheDuration == 300000

\* the period of the timer of subscribeToRealTimeData, in milliseconds
TickPeriod == 30000

\* the providers sorted the other way round, b.priority - a.priority
ProvidersDescending == <<"YAHOO", "TWELVE", "FINNHUB", "POLYGON", "ALPHA_VANTAGE", "FMP">>

\* this.providers after initializeProviders: the providers as pushed, with
\* the priorities of API_CONFIG, sorted by ascending priority; their names
Providers ==
    LET pushed == { [name |-> "FMP", priority |-> 1],
                    [name |-> "ALPHA_VANTAGE", priority |-> 2],
                    [name |-> "POLYGON", priority |-> 3],
                    [name |-> "FINNHUB", priority |-> 4],
                    [name |-> "TWELVE", priority |-> 5],
                    [name |-> "YAHOO", priority |-> 6] }
    IN  [k \in 1..Cardinality(pushed) |->
            (CHOOSE e \in pushed :
                Cardinality({f \in pushed : f.priority < e.priority}) = k - 1).name]

\* what getQuote, getHistoricalData and getCachedData return for nothing
null == [kind |-> "null"]

\* getCachedData(key) at the time now; a cache is a Map, here the set of its
\* entries, at most one for a key
getCachedData(cache, key, time) ==
    IF \E e \in cache : e.key = key /\ time - e.timestamp < CacheDuration
    THEN (CHOOSE e \in cache : e.key = key).data
    ELSE null

\* the cache after setCachedData(key, value) at the time now
setCachedData(cache, key, value, time) ==
    {e \in cache : e.key # key} \cup {[key |-> key, data |-> value, timestamp |-> time]}

\* both services as constructed: empty caches, nothing in flight, no timer
NoFeed ==
    /\ now = 0
    /\ apiCache = {}
    /\ serviceCache = {}
    /\ pending = {}
    /\ interval = [status |-> "none", ticks |-> 0]
    /\ delivered = <<>>

----------------------------------------------------------------------------
(* The engines the model constructs *)

\* closing prices of the short histories
Closes == {90, 100, 120}

\* a bar around a close (its open is never read by the engine); the date is
\* given by Dated
BarAt(c) == [date |-> 0, high |-> c + 1, low |-> c - 1, close |-> c, volume |-> 1000]

\* the bars of h dated by their place: day 1, day 2, ...
Dated(h) == List([i \in 1..Len(h) |-> [h[i] EXCEPT !.date = i]])

\* the close of bar i of long history k: pattern 0 is flat, the others wander;
\* pattern 3 opens at a close above all that follow
WaveClose(k, i) ==
    1000 + (IF k = 0 THEN 0
            ELSE IF k = 3 /\ i = 1 THEN 100
            ELSE ((i * i * k + 3 * i) % 31) - 15)

LongHistory(k) == Dated([i \in 1..LongBars |-> BarAt(WaveClose(k, i))])

\* every short history, and the long ones
Histories ==
    { Dated(h) : h \in UNION { [1..n -> {BarAt(c) : c \in Closes}] : n \in 0..MaxBars } }
        \cup { LongHistory(k) : k \in 0..NumWaves }

\* confidence levels, in millionths: 0.90 .. 0.999999
ConfLevels == {900000, 950000, 990000, 999000, 999999}

NoCall == [op |-> "none"]

NoResult == [kind |-> "none"]

\* no implied-volatility solver is running
NoSolver == [status |-> "idle"]

\* the 5% set by the field initializer of OptionsAnalyzer, in millionths
DefaultRate == 50000

\* new OptionsAnalyzer(riskFreeRate?): the field after construction; the
\* argument is << >> when absent, << r >> when given, and replaces the
\* default only if it is truthy
OptionsAnalyzer(arg) == IF arg # <<>> /\ arg[1] # 0 /\ arg[1] # NaN THEN arg[1] ELSE DefaultRate

\* new AdvancedRiskEngine(data): the constructor stores data and derives returns
Init ==
    /\ data \in Histories
    /\ returns = calculateReturns(data)
    /\ rateGiven = <<>>
    /\ riskFreeRate = OptionsAnalyzer(rateGiven)
    /\ NoFeed
    /\ call = NoCall
    /\ result = NoResult
    /\ solver = NoSolver

\* a method is called on the idle engine; its result stays in `result`
\* until the caller takes it (Return)
DoGARCH ==
    /\ call = NoCall
    /\ call' = [op |-> "calculateGARCH"]
    /\ result' = calculateGARCH(returns)
    /\ UNCHANGED <<data, returns, riskFreeRate, rateGiven, feed, solver>>

\* this.returns after [...this.returns].sort(...): the spread makes a copy,
\* the sort works on the copy, and the stored series keeps its order
KeptByCopy(rets) == rets

DoVaR(c) ==
    /\ call = NoCall
    /\ call' = [op |-> "calculateVaR", confidenceLevel |-> c]
    /\ result' = calculateVaR(returns, c, 1)
    /\ returns' = KeptByCopy(returns)
    /\ UNCHANGED <<data, riskFreeRate, rateGiven, feed, solver>>

DoES(c) ==
    /\ call = NoCall
    /\ call' = [op |-> "calculateExpectedShortfall", confidenceLevel |-> c]
    /\ result' = calculateExpectedShortfall(returns, c)
    /\ returns' = KeptByCopy(returns)
    /\ UNCHANGED <<data, riskFreeRate, rateGiven, feed, solver>>

\* the benchmark arguments tried with a return series: none, the series itself,
\* the series reversed, a flat series of the same length, a shorter series
Benchmarks(rets) ==
    LET n == Len(rets)
    IN  { NoBenchmark,
          Benchmark(rets),
          Benchmark(List([i \in 1..n |-> rets[n + 1 - i]])),
          Benchmark(List([i \in 1..n |-> 0])),
          Benchmark(SubSeq(rets, 1, n - 1)) }

DoMetrics(b) ==
    /\ call = NoCall
    /\ call' = [op |-> "calculateAdvancedRiskMetrics", benchmark |-> b]
    /\ result' = calculateAdvancedRiskMetrics(returns, b)
    /\ UNCHANGED <<data, returns, riskFreeRate, rateGiven, feed, solver>>

\* the caller takes the result (or catches the exception) once the call has
\* returned: the engine is idle again, its fields as they were
Return ==
    /\ call # NoCall
    /\ solver.status # "running"
    /\ \A p \in pending : p.from # 0
    /\ call' = NoCall
    /\ result' = NoResult
    /\ solver' = NoSolver
    /\ UNCHANGED <<data, returns, riskFreeRate, rateGiven, feed>>

----------------------------------------------------------------------------
(* The volume profile of short histories *)

\* candles as << low, high, close >>: flat at the bottom, spanning, flat at the top
CandleShapes == { <<10, 10, 10>>, <<10, 14, 12>>, <<14, 14, 14>> }

\* traded volumes; 0 is what index data carries
CandleVolumes == {0, 3, 7}

Candles ==
    { [date |-> 0, high |-> s[2], low |-> s[1], close |-> s[3], volume |-> v] :
        s \in CandleShapes, v \in CandleVolumes }

\* the priceLevels arguments tried
BinCounts == {0, 1, 2, 4, 5}

InitVP ==
    /\ data \in { Dated(h) : h \in UNION { [1..n -> Candles] : n \in 0..MaxCandles } }
    /\ returns = calculateReturns(data)
    /\ rateGiven = <<>>
    /\ riskFreeRate = OptionsAnalyzer(rateGiven)
    /\ NoFeed
    /\ call = NoCall
    /\ result = NoResult
    /\ solver = NoSolver

DoVolumeProfile(priceLevels) ==
    /\ call = NoCall
    /\ call' = [op |-> "calculateVolumeProfile", priceLevels |-> priceLevels]
    /\ result' = calculateVolumeProfile(data, priceLevels)
    /\ UNCHANGED <<data, returns, riskFreeRate, rateGiven, feed, solver>>

NextVP ==
    \/ \E priceLevels \in BinCounts : DoVolumeProfile(priceLevels)
    \/ Return

SpecVP == InitVP /\ [][NextVP]_vars

----------------------------------------------------------------------------
(* Monte Carlo runs *)

\* the closes of the simulated engines' histories: a single bar (no return),
\* flat ones (mean 0, deviation 0), a single return, wandering ones
SimulatedCloses ==
    { <<100>>, <<100, 100>>, <<120, 120, 120, 120>>, <<100, 120>>,
      <<100, 120, 90, 100>>, <<100, 90, 90, 120, 100>> }

InitMC ==
    /\ data \in { Dated([i \in 1..Len(c) |-> BarAt(c[i])]) : c \in SimulatedCloses }
    /\ returns = calculateReturns(data)
    /\ rateGiven = <<>>
    /\ riskFreeRate = OptionsAnalyzer(rateGiven)
    /\ NoFeed
    /\ call = NoCall
    /\ result = NoResult
    /\ solver = NoSolver

DoMonteCarlo(currentPrice, days, simulations, targetDecline, seed) ==
    /\ call = NoCall
    /\ call' = [op |-> "monteCarloSimulation", currentPrice |-> currentPrice,
                days |-> days, simulations |-> simulations,
                targetDecline |-> targetDecline, seed |-> seed]
    /\ result' = monteCarloSimulation(returns, currentPrice, days, simulations,
                                      targetDecline, seed)
    /\ UNCHANGED <<data, returns, riskFreeRate, rateGiven, feed, solver>>

\* calls with a size out of range, as << currentPrice, days, simulations >>:
\* a price of 0 or below, no day, no simulation
InvalidSizes ==
    { << 0, 1, 2 >>, << 0 - 50 * RScale, 1, 2 >>, << 100 * RScale, 0, 2 >>,
      << 100 * RScale, 0 - 1, 2 >>, << 100 * RScale, 1, 0 >>, << 100 * RScale, 1, 0 - 1 >>,
      << 0, 0, 0 >> }

\* prices 50 and 100, declines of 0.0001%, 5% and 150%, the source started at
\* two places; then the calls with a size out of range
NextMC ==
    \/ \E currentPrice \in {50 * RScale, 100 * RScale}, days \in 1..MaxDays,
          simulations \in {1, 2, 40, ManySims}, targetDecline \in {1, 50000, 1500000},
          seed \in {0, 7} :
            DoMonteCarlo(currentPrice, days, simulations, targetDecline, seed)
    \/ \E sizes \in InvalidSizes :
            DoMonteCarlo(sizes[1], sizes[2], sizes[3], 50000, 0)
    \/ Return

SpecMC == InitMC /\ [][NextMC]_vars

\* the engine over the price histories: every operation, the volume profile
\* with one and two levels, the simulation of two one-day paths from a price
\* of 100 with the random source at two places
Next ==
    \/ DoGARCH
    \/ \E c \in ConfLevels : DoVaR(c)
    \/ \E c \in ConfLevels : DoES(c)
    \/ \E b \in Benchmarks(returns) : DoMetrics(b)
    \/ \E priceLevels \in {1, 2} : DoVolumeProfile(priceLevels)
    \/ \E seed \in {0, 7} : DoMonteCarlo(100 * RScale, 1, 2, 50000, seed)
    \/ Return

Spec == Init /\ [][Next]_vars

----------------------------------------------------------------------------
(* Option pricing *)

InitOpt ==
    /\ data = <<>>
    /\ returns = calculateReturns(data)
    /\ rateGiven \in {<<>>, <<0>>, <<125000>>}
    /\ riskFreeRate = OptionsAnalyzer(rateGiven)
    /\ NoFeed
    /\ call = NoCall
    /\ result = NoResult
    /\ solver = NoSolver

DoBlackScholes(stockPrice, strikePrice, timeToExpiry, volatility, optionType) ==
    /\ call = NoCall
    /\ call' = [op |-> "calculateBlackScholes", stockPrice |-> stockPrice,
                strikePrice |-> strikePrice, timeToExpiry |-> timeToExpiry,
                volatility |-> volatility, optionType |-> optionType]
    /\ result' = [kind |-> "price",
                  value |-> calculateBlackScholes(stockPrice, strikePrice, timeToExpiry,
                                                  volatility, optionType, riskFreeRate)]
    /\ UNCHANGED <<data, returns, riskFreeRate, rateGiven, feed, solver>>

\* calculateImpliedVolatility is entered: the loop variables are set
DoImpliedVolatility(marketPrice, stockPrice, strikePrice, timeToExpiry, optionType) ==
    /\ call = NoCall
    /\ call' = [op |-> "calculateImpliedVolatility", marketPrice |-> marketPrice,
                stockPrice |-> stockPrice, strikePrice |-> strikePrice,
                timeToExpiry |-> timeToExpiry, optionType |-> optionType]
    /\ solver' = [status |-> "running", i |-> 0, volatility |-> InitialVolatility, ln |-> 0]
    /\ result' = NoResult
    /\ UNCHANGED <<data, returns, riskFreeRate, rateGiven, feed>>

\* one pass of the loop; when the loop is left the volatility is returned
Iterate ==
    /\ solver.status = "running"
    /\ solver' = SolverStep(solver, call.marketPrice, call.stockPrice, call.strikePrice,
                            call.timeToExpiry, call.optionType, riskFreeRate)
    /\ result' = IF solver'.status = "running" THEN NoResult
                  ELSE [kind |-> "number", value |-> solver'.volatility]
    /\ UNCHANGED <<data, returns, riskFreeRate, rateGiven, feed, call>>

\* times to expiry of 1/16, 1/4, 1 and 9/4 years (their roots are exact in
\* binary, as the volatilities 50% and 100% are); volatilities of 5%, 20%,
\* 50% and 100%; the prices fed to the solver are prices of the analyzer.
\* The analyzer constructed with the rate 0 has the field of the one
\* constructed without a rate, so the solver is run on the latter only.
NextOpt ==
    \/ \E stockPrice \in {100, 2000}, strikePrice \in {90, 100, 2000},
          timeToExpiry \in {62500, 250000, 1000000, 2250000},
          volatility \in {50000, 200000, 500000, 1000000},
          optionType \in {"call", "put"} :
            DoBlackScholes(stockPrice, strikePrice, timeToExpiry, volatility, optionType)
    \/ \E strikePrice \in {90, 100}, timeToExpiry \in {62500, 250000, 1000000, 2250000},
          volatility \in {50000, 200000, 500000, 1000000}, optionType \in {"call", "put"} :
            rateGiven # <<0>> /\ DoImpliedVolatility(
                calculateBlackScholes(100, strikePrice, timeToExpiry, volatility, optionType,
                                      riskFreeRate),
                100, strikePrice, timeToExpiry, optionType)
    \/ Iterate
    \/ Return

SpecOpt == InitOpt /\ [][NextOpt]_vars

\* calculateImpliedVolatility is sequential code: once called, its loop goes
\* on pass after pass until it is left.  This is the weak fairness of
\* Iterate, WF_vars(Iterate), with ENABLED <<Iterate>>_vars written out: a
\* pass can be taken exactly when the solver is running.
SpecOptFair ==
    SpecOpt /\ ([]<>(solver.status # "running") \/ []<><<Iterate>>_vars)

----------------------------------------------------------------------------
(* Quotes and histories: MultiApiService under a client and under the       *)
(* real-time subscription of MarketDataService                              *)

InitFeed ==
    /\ data = <<>>
    /\ returns = calculateReturns(data)
    /\ rateGiven = <<>>
    /\ riskFreeRate = OptionsAnalyzer(rateGiven)
    /\ call = NoCall
    /\ result = NoResult
    /\ solver = NoSolver
    /\ NoFeed

\* a client calls multiApiService.getQuote or getHistoricalData (op), key
\* the cache key: a cached value is returned at once, otherwise the first
\* provider is asked and the call awaits its answer
DoGet(op, key) ==
    /\ call = NoCall
    /\ call' = [op |-> op, key |-> key]
    /\ IF getCachedData(apiCache, key, now) # null
       THEN /\ result' = [kind |-> "returned", value |-> getCachedData(apiCache, key, now),
                          contacted |-> <<>>]
            /\ pending' = pending
       ELSE /\ result' = NoResult
            /\ pending' = pending \cup
                 {[op |-> op, key |-> key, from |-> 0,
                   contacted |-> << [provider |-> Providers[1], outcome |-> "awaited"] >>]}
    /\ UNCHANGED <<data, returns, riskFreeRate, rateGiven, solver,
                   now, apiCache, serviceCache, interval, delivered>>

\* the provider awaited by the call p answers: "ok" (a quote, or a history
\* with bars), "empty" (a history without bars) or "failed" (the promise is
\* rejected).  A good answer is cached and returned; otherwise the next
\* provider is asked, and after the last one null is returned.  The call of
\* a client (from = 0) returns to the client; the call of a tick handler
\* returns into getCurrentQuote, which caches a quote and returns it to the
\* handler, which invokes the callback, or on null asks the proxy /api/quote.
Answer(p, outcome) ==
    LET n     == Len(p.contacted)
        tried == [p.contacted EXCEPT ![n].outcome = outcome]
        value == [kind |-> p.key, source |-> p.contacted[n].provider, tick |-> p.from]
        last  == outcome = "ok" \/ n = Len(Providers)
        back  == IF outcome = "ok" THEN value ELSE null
    IN  /\ p \in pending /\ p.op # "proxy"
        /\ outcome = "empty" => p.op = "getHistoricalData"
        /\ apiCache' = IF outcome = "ok" THEN setCachedData(apiCache, p.key, value, now)
                       ELSE apiCache
        /\ pending' = (pending \ {p}) \cup
              (IF ~last
               THEN {[p EXCEPT !.contacted =
                        Append(tried, [provider |-> Providers[n + 1], outcome |-> "awaited"])]}
               ELSE IF p.from # 0 /\ back = null
               THEN {[op |-> "proxy", key |-> p.key, from |-> p.from, contacted |-> tried]}
               ELSE {})
        /\ result' = IF last /\ p.from = 0
                     THEN [kind |-> "returned", value |-> back, contacted |-> tried]
                     ELSE result
        /\ serviceCache' = IF p.from # 0 /\ outcome = "ok"
                           THEN setCachedData(serviceCache, p.key, value, now)
                           ELSE serviceCache
        /\ delivered' = IF p.from # 0 /\ outcome = "ok"
                        THEN Append(delivered, [tick |-> p.from, quote |-> value,
                                                cleared |-> interval.status = "cleared"])
                        ELSE delivered
        /\ UNCHANGED <<data, returns, riskFreeRate, rateGiven, solver, call, now, interval>>

\* the proxy /api/quote awaited by getCurrentQuote answers, or fails and the
\* catch generates a fallback quote; either quote is cached and returned to
\* the tick handler, which invokes the callback
ProxyAnswers(p, ok) ==
    LET value == [kind |-> p.key, source |-> IF ok THEN "proxy" ELSE "generated",
                  tick |-> p.from]
    IN  /\ p \in pending /\ p.op = "proxy"
        /\ pending' = pending \ {p}
        /\ serviceCache' = setCachedData(serviceCache, p.key, value, now)
        /\ delivered' = Append(delivered, [tick |-> p.from, quote |-> value,
                                           cleared |-> interval.status = "cleared"])
        /\ UNCHANGED <<data, returns, riskFreeRate, rateGiven, solver, call, result,
                       now, apiCache, interval>>

\* subscribeToRealTimeData(symbol, callback): the timer is set
Subscribe ==
    /\ interval.status = "none"
    /\ interval' = [status |-> "set", ticks |-> 0]
    /\ UNCHANGED <<data, returns, riskFreeRate, rateGiven, solver, call, result,
                   now, apiCache, serviceCache, pending, delivered>>

\* the timer fires, TickPeriod after it was set or fired last.  The handler
\* deletes the quote of MarketDataService.cache and calls getCurrentQuote,
\* which misses that cache and calls multiApiService.getQuote: a quote cached
\* there is returned, cached again and handed to the callback before
\* anything else runs; otherwise the first provider is asked.
Tick ==
    LET cleared == {e \in serviceCache : e.key # "quote"}
        cached  == getCachedData(apiCache, "quote", now + TickPeriod)
    IN  /\ interval.status = "set" /\ interval.ticks < MaxTicks
        /\ interval' = [interval EXCEPT !.ticks = @ + 1]
        /\ now' = now + TickPeriod
        /\ IF cached # null
           THEN /\ serviceCache' = setCachedData(cleared, "quote", cached, now + TickPeriod)
                /\ delivered' = Append(delivered, [tick |-> interval.ticks + 1,
                                                   quote |-> cached, cleared |-> FALSE])
                /\ pending' = pending
           ELSE /\ serviceCache' = cleared
                /\ delivered' = delivered
                /\ pending' = pending \cup
                     {[op |-> "getQuote", key |-> "quote", from |-> interval.ticks + 1,
                       contacted |-> << [provider |-> Providers[1], outcome |-> "awaited"] >>]}
        /\ UNCHANGED <<data, returns, riskFreeRate, rateGiven, solver, call, result, apiCache>>

\* the function subscribeToRealTimeData returned is called: clearInterval
Unsubscribe ==
    /\ interval.status = "set"
    /\ interval' = [interval EXCEPT !.status = "cleared"]
    /\ UNCHANGED <<data, returns, riskFreeRate, rateGiven, solver, call, result,
                   now, apiCache, serviceCache, pending, delivered>>

\* with no timer set, a cache duration goes by
Wait ==
    /\ interval.status # "set"
    /\ now + CacheDuration <= MaxClock
    /\ now' = now + CacheDuration
    /\ UNCHANGED <<data, returns, riskFreeRate, rateGiven, solver, call, result,
                   apiCache, serviceCache, pending, interval, delivered>>

\* a client of MultiApiService, one call at a time
NextApi ==
    \/ DoGet("getQuote", "quote")
    \/ DoGet("getHistoricalData", "history")
    \/ \E p \in pending, outcome \in {"ok", "empty", "failed"} : Answer(p, outcome)
    \/ Wait
    \/ Return

SpecApi == InitFeed /\ [][NextApi]_vars

\* one subscription to real-time data
NextFeed ==
    \/ Subscribe
    \/ Tick
    \/ \E p \in pending, outcome \in {"ok", "failed"} : Answer(p, outcome)
    \/ \E p \in pending, ok \in BOOLEAN : ProxyAnswers(p, ok)
    \/ Unsubscribe

SpecFeed == InitFeed /\ [][NextFeed]_vars

----------------------------------------------------------------------------
(* Claims about the return series, GARCH and VaR *)

\* the bars are in the order of their dates
Chronological(d) == \A i \in 1..(Len(d) - 1) : d[i].date < d[i + 1].date

\* C1: a history of n >= 2 bars in chronological order yields exactly n-1
\* returns, and return i is (close[i+1] - close[i]) / close[i], to within the
\* rounding of one division (half a unit of 1/RScale).
ReturnsMatchCloses ==
    (Len(data) >= 2 /\ Chronological(data)) =>
        /\ Len(returns) = Len(data) - 1
        /\ \A i \in 1..(Len(data) - 1) :
              2 * Abs(returns[i] * data[i].close
                        - (data[i + 1].close - data[i].close) * RScale)
                 <= data[i].close

\* a history of three bars or more with a rise, a fall and an inexact quotient
ReturnsWitness ==
    /\ Len(data) >= 3
    /\ \E i, j \in 1..Len(returns) :
          /\ returns[i] > 0 /\ returns[j] < 0
          /\ returns[i] * data[i].close # (data[i + 1].close - data[i].close) * RScale

\* C2: for a non-empty return series calculateGARCH returns, and every
\* conditional variance on its path and the forecast variance are >= 0, so
\* every volatility and the forecast are real (not NaN) and >= 0.
GarchNonNegative ==
    (call.op = "calculateGARCH" /\ returns # <<>>) =>
        /\ result.kind = "garch"
        /\ \A i \in 1..Len(result.variance) : result.variance[i] >= 0
        /\ result.forecastVar >= 0
        /\ Len(result.volatility) = Len(returns)
        /\ \A i \in 1..Len(result.volatility) :
              result.volatility[i] # NaN /\ result.volatility[i] >= 0
        /\ result.forecast # NaN /\ result.forecast >= 0

\* a GARCH path of three or more entries that moves both up and down
GarchWitness ==
    /\ call.op = "calculateGARCH"
    /\ result.kind = "garch"
    /\ Len(result.variance) >= 3
    /\ \E i, j \in 2..Len(result.variance) :
          /\ result.variance[i] > result.variance[i - 1]
          /\ result.variance[j] < result.variance[j - 1]

\* C3: for a fixed return series the historical VaR is non-decreasing in the
\* confidence level: the one calculateVaR computed at its level is <= that
\* of every higher level and >= that of every lower level.
HistoricalVaRMonotone ==
    (call.op = "calculateVaR" /\ result.kind = "var") =>
        \A c \in ConfLevels :
            /\ call.confidenceLevel <= c => result.historical <= HistoricalVaR(returns, c)
            /\ c <= call.confidenceLevel => HistoricalVaR(returns, c) <= result.historical

\* a VaR that is strictly smaller than the one of a higher confidence level
\* and strictly larger than the one of a lower level
HistoricalVaRWitness ==
    /\ call.op = "calculateVaR"
    /\ result.kind = "var"
    /\ \E lo, hi \in ConfLevels :
          /\ lo < call.confidenceLevel /\ call.confidenceLevel < hi
          /\ HistoricalVaR(returns, lo) < result.historical
          /\ result.historical < HistoricalVaR(returns, hi)

\* C10: whenever calculateAdvancedRiskMetrics produces beta = 1, alpha = 0
\* because no benchmark was supplied or the supplied one was not used, the
\* result carries something beyond the numbers of RiskMetrics that tags the
\* beta as a fallback.
FallbackBetaTagged ==
    (/\ call.op = "calculateAdvancedRiskMetrics"
     /\ result.kind = "metrics"
     /\ ~BenchmarkUsed(returns, call.benchmark))
        => DOMAIN result \ ({"kind"} \cup RiskMetricsFields) # {}

\* metrics computed with a benchmark of another length: the fallback beta
FallbackBetaWitness ==
    /\ call.op = "calculateAdvancedRiskMetrics"
    /\ result.kind = "metrics"
    /\ call.benchmark.given
    /\ ~BenchmarkUsed(returns, call.benchmark)
    /\ result.beta = RScale /\ result.alpha = 0


----------------------------------------------------------------------------
(* Claims about the volume profile *)

\* C8: for a non-empty bar list and any bin count, the volumes of the entries
\* calculateVolumeProfile returns add up to exactly the sum of the bars'
\* volumes: every bar's volume is in exactly one bin.
VolumeConserved ==
    (call.op = "calculateVolumeProfile" /\ data # <<>>) =>
        /\ result.kind = "profile"
        /\ SumSeq([k \in 1..Len(result.entries) |-> result.entries[k].volume])
              = SumSeq([i \in 1..Len(data) |-> data[i].volume])

\* a profile of two bins or more, one of them filled by two traded candles
VolumeConservedWitness ==
    /\ call.op = "calculateVolumeProfile"
    /\ result.kind = "profile"
    /\ Len(result.entries) >= 2
    /\ \E k \in 1..Len(result.entries) : \E i, j \in 1..Len(data) :
          /\ i # j /\ data[i].volume > 0 /\ data[j].volume > 0
          /\ result.entries[k].volume = data[i].volume + data[j].volume

\* the value area of bins with the given total: the selected bins come in
\* descending volume order and no unselected bin has more volume than a
\* selected one, the selection holds at least 70% of the total, and the
\* selection without its last bin holds less than 70%
ValueAreaProper(bins, area, total) ==
    /\ \A i, j \in 1..Len(area) : i < j => area[i].volume >= area[j].volume
    /\ \A k \in 1..Len(bins) :
          (\A i \in 1..Len(area) : area[i].level # bins[k].level)
              => bins[k].volume <= area[Len(area)].volume
    /\ 10 * SumRange([i \in 1..Len(area) |-> area[i].volume], 1, Len(area)) >= 7 * total
    /\ 10 * SumRange([i \in 1..Len(area) |-> area[i].volume], 1, Len(area) - 1) < 7 * total

\* C9 as stated: the bins calculateVolumeProfile selects for the value area
\* are taken in descending volume order, hold >= 70% of the total volume, and
\* are minimal (without the last-selected bin they hold < 70%).
ValueAreaMinimal ==
    (call.op = "calculateVolumeProfile" /\ result.kind = "profile") =>
        ValueAreaProper(BinsOf(data, call.priceLevels),
                        ValueAreaLevels(BinsOf(data, call.priceLevels)),
                        TotalVolume(BinsOf(data, call.priceLevels)))

\* C9, amended: when the total volume is positive, the bins selected for the
\* value area are taken in descending volume order, hold >= 70% of the total
\* volume, and are minimal.
ValueAreaMinimalWhenTraded ==
    (/\ call.op = "calculateVolumeProfile"
     /\ result.kind = "profile"
     /\ TotalVolume(BinsOf(data, call.priceLevels)) > 0) =>
        ValueAreaProper(BinsOf(data, call.priceLevels),
                        ValueAreaLevels(BinsOf(data, call.priceLevels)),
                        TotalVolume(BinsOf(data, call.priceLevels)))

\* a traded profile whose value area takes two bins and leaves one out, the
\* first bin alone falling short of 70%
ValueAreaWitness ==
    /\ call.op = "calculateVolumeProfile"
    /\ result.kind = "profile"
    /\ TotalVolume(BinsOf(data, call.priceLevels)) > 0
    /\ Len(ValueAreaLevels(BinsOf(data, call.priceLevels))) = 2
    /\ Len(BinsOf(data, call.priceLevels)) = 3


----------------------------------------------------------------------------
(* Claims about the Monte Carlo simulation *)

\* C4: when the return series has mean 0 and standard deviation 0, every one
\* of the M terminal prices monteCarloSimulation returns equals the starting
\* price exactly and probabilities[0] is 0, for a positive targetDecline and
\* every M >= 1, D >= 1 (the starting price being positive, as the
\* simulation's inputs are).
DegenerateMonteCarlo ==
    (/\ call.op = "monteCarloSimulation"
     /\ returns # <<>>
     /\ mean(returns) = 0 /\ standardDeviation(returns) = 0
     /\ call.currentPrice > 0
     /\ call.targetDecline > 0 /\ call.simulations >= 1 /\ call.days >= 1) =>
        /\ result.kind = "monteCarlo"
        /\ Len(result.scenarios) = call.simulations
        /\ \A i \in 1..Len(result.scenarios) : result.scenarios[i] = call.currentPrice
        /\ result.probabilities[1] = 0

\* a run of many paths over two days on a flat history of several bars
DegenerateMonteCarloWitness ==
    /\ call.op = "monteCarloSimulation"
    /\ Len(returns) >= 3
    /\ mean(returns) = 0 /\ standardDeviation(returns) = 0
    /\ call.simulations >= 1000 /\ call.days >= 2
    /\ result.kind = "monteCarlo"
    /\ result.bestCase = call.currentPrice

\* C5: in the result of a run with sims >= 1000 the four interval bounds are
\* the entries of the sorted terminal prices at the in-range indices
\* floor(0.005M), floor(0.025M), floor(0.975M), floor(0.995M), and the 99%
\* interval contains the 95% interval: ci99[0] <= ci95[0], ci95[1] <= ci99[1].
IntervalsNested ==
    (/\ call.op = "monteCarloSimulation"
     /\ result.kind = "monteCarlo"
     /\ call.simulations >= 1000) =>
        LET M    == call.simulations
            at(k) == (k * M) \div 1000
            ci   == result.confidenceIntervals
        IN  /\ Len(result.scenarios) = M
            /\ \A i \in 1..(M - 1) : result.scenarios[i] <= result.scenarios[i + 1]
            /\ \A k \in {5, 25, 975, 995} : 0 <= at(k) /\ at(k) <= M - 1
            /\ ci.ci99[1] = result.scenarios[at(5) + 1]
            /\ ci.ci95[1] = result.scenarios[at(25) + 1]
            /\ ci.ci95[2] = result.scenarios[at(975) + 1]
            /\ ci.ci99[2] = result.scenarios[at(995) + 1]
            /\ ci.ci99[1] <= ci.ci95[1]
            /\ ci.ci95[2] <= ci.ci99[2]

\* a run of 1000 paths or more whose 99% interval is strictly wider than its
\* 95% interval at both ends
IntervalsNestedWitness ==
    /\ call.op = "monteCarloSimulation"
    /\ result.kind = "monteCarlo"
    /\ call.simulations >= 1000
    /\ result.confidenceIntervals.ci99[1] < result.confidenceIntervals.ci95[1]
    /\ result.confidenceIntervals.ci95[1] < result.confidenceIntervals.ci95[2]
    /\ result.confidenceIntervals.ci95[2] < result.confidenceIntervals.ci99[2]


----------------------------------------------------------------------------
(* Claims about option pricing *)

\* C6: put-call parity.  For valid (S, K, T, sigma) and the analyzer's rate
\* r the call price minus the put price is S - K * e^(-rT), to within 1e-6,
\* and normalCDF(x) + normalCDF(-x) = 1 at x = d1 and at x = d2.
PutCallParity ==
    (call.op = "calculateBlackScholes" /\ call.optionType = "call") =>
        LET d1  == calculateD1(call.stockPrice, call.strikePrice, call.timeToExpiry,
                               call.volatility, riskFreeRate)
            d2  == FSub(d1, FMul(call.volatility, FSqrt(call.timeToExpiry, Micro), Micro))
            put == calculateBlackScholes(call.stockPrice, call.strikePrice,
                                         call.timeToExpiry, call.volatility, "put",
                                         riskFreeRate)
            gap == MoneySub(MoneySub(result.value, put),
                            MoneySub(<< call.stockPrice, 0 >>,
                                     DiscountedStrike(call.strikePrice, call.timeToExpiry,
                                                      riskFreeRate)))
        IN  /\ MoneySize(gap) <= CdfUnit \div Micro
            /\ normalCDF(d1) + normalCDF(FSub(0, d1)) = CdfUnit
            /\ normalCDF(d2) + normalCDF(FSub(0, d2)) = CdfUnit

\* a call priced where d2 is exactly 0 and the parity gap exceeds 1e-6
PutCallParityWitness ==
    /\ call.op = "calculateBlackScholes" /\ call.optionType = "call"
    /\ call.strikePrice = 2000 /\ riskFreeRate = 125000
    /\ calculateD1(call.stockPrice, call.strikePrice, call.timeToExpiry, call.volatility,
                   riskFreeRate)
          = FMul(call.volatility, FSqrt(call.timeToExpiry, Micro), Micro)
    /\ MoneySize(MoneySub(
            MoneySub(result.value,
                     calculateBlackScholes(call.stockPrice, call.strikePrice,
                                           call.timeToExpiry, call.volatility, "put",
                                           riskFreeRate)),
            MoneySub(<< call.stockPrice, 0 >>,
                     DiscountedStrike(call.strikePrice, call.timeToExpiry, riskFreeRate))))
          > CdfUnit \div Micro


\* the volatilities sigma in [0.05, 1.0] at which the analyzer prices this
\* option at exactly the market price that was fed to the solver
PricedAt ==
    { sigma \in {50000, 200000, 500000, 1000000} :
        call.marketPrice = calculateBlackScholes(call.stockPrice, call.strikePrice,
                                                 call.timeToExpiry, sigma, call.optionType,
                                                 riskFreeRate) }

\* C7: implied-volatility round trip.  For sigma in [0.05, 1.0] and T in
\* [0.01, 3], when the price calculateBlackScholes(S, K, T, sigma) is fed to
\* calculateImpliedVolatility, the volatility returned is within 1e-4 of sigma.
RoundTripRecovers ==
    (/\ call.op = "calculateImpliedVolatility"
     /\ result.kind = "number"
     /\ 10000 <= call.timeToExpiry /\ call.timeToExpiry <= 3000000) =>
        \A sigma \in PricedAt :
            IsFinite(result.value) /\ Abs(result.value - sigma) <= 100

\* a round trip at the money that ends on the floor of 0.001 with a zero
\* vega, the price having been that of a volatility of 5%
RoundTripLostWitness ==
    /\ call.op = "calculateImpliedVolatility"
    /\ call.stockPrice = call.strikePrice
    /\ 50000 \in PricedAt
    /\ solver.status = "zero vega"
    /\ result.kind = "number" /\ result.value = MinVolatility

----------------------------------------------------------------------------
(* Claims about degenerate and malformed input *)

\* every entry of the series is the same number: its variance is zero
ZeroVariance(s) == \A i \in 1..Len(s) : s[i] = s[1]

\* C11: when the return series has zero variance (all returns equal), or the
\* benchmark that is used has, calculateAdvancedRiskMetrics does not hand
\* back a RiskMetrics with a field that is NaN or +/-Infinity: the division
\* by zero is detected, not passed on silently.
MetricsNeverDegenerate ==
    (/\ call.op = "calculateAdvancedRiskMetrics"
     /\ result.kind = "metrics"
     /\ \/ ZeroVariance(returns)
        \/ BenchmarkUsed(returns, call.benchmark) /\ ZeroVariance(call.benchmark.returns))
        => \A f \in RiskMetricsFields : IsFinite(result[f])

\* a flat price history of more than three bars: the metrics come back with
\* skewness NaN (0/0) and an infinite Sharpe ratio
MetricsDegenerateWitness ==
    /\ call.op = "calculateAdvancedRiskMetrics"
    /\ result.kind = "metrics"
    /\ Len(returns) > 3 /\ ZeroVariance(returns)
    /\ result.skewness = NaN /\ result.kurtosis = NaN
    /\ ~IsFinite(result.sharpeRatio)

\* C12: a history of fewer than 2 bars yields no engine: deriving its return
\* series fails with InsufficientData, so no engine holds an empty return
\* series for GARCH, VaR or the metrics to consume.
ReturnsNeverEmpty == Len(data) >= 2 /\ returns # <<>>

\* an engine built from a single bar, whose empty return series reached
\* calculateGARCH and made the statistics library throw there
EmptyReturnsWitness ==
    /\ Len(data) = 1 /\ returns = <<>>
    /\ call.op = "calculateGARCH"
    /\ result = Throw("variance requires at least one data point")

\* C13: a call of monteCarloSimulation with simulations < 1, days < 1 or
\* currentPrice <= 0 fails with InvalidParameters: it never returns a
\* MonteCarloResult and fails in no other way.
InvalidSizesRejected ==
    (/\ call.op = "monteCarloSimulation"
     /\ (call.simulations < 1 \/ call.days < 1 \/ call.currentPrice <= 0))
        => result = Throw("InvalidParameters")

\* a call with days = 0 on an engine with returns that came back with a
\* MonteCarloResult, every scenario being the current price
InvalidSizesWitness ==
    /\ call.op = "monteCarloSimulation"
    /\ call.days = 0 /\ call.simulations = 2 /\ returns # <<>>
    /\ result.kind = "monteCarlo"
    /\ result.scenarios = << call.currentPrice, call.currentPrice >>

----------------------------------------------------------------------------
(* Claims about the implied-volatility solver *)

\* the solver has left its loop
SolverDone == solver.status \in {"converged", "zero vega", "exhausted"}

\* |price - marketPrice| < tolerance at the solver's current volatility
WithinTolerance ==
    LET price == calculateBlackScholes(call.stockPrice, call.strikePrice, call.timeToExpiry,
                                       solver.volatility, call.optionType, riskFreeRate)
    IN  price[1] # NaN /\ MoneySize(MoneySub(price, call.marketPrice)) < Tolerance

\* C14: when the solver stops without |price - marketPrice| < 1e-6 (on a zero
\* vega, or after its 100 passes) it does not throw, and what it returns
\* carries, beside the estimate, a status that marks it as not converged.
NonConvergenceFlagged ==
    (call.op = "calculateImpliedVolatility" /\ solver.status \in {"zero vega", "exhausted"})
        => /\ result.kind # "throw"
           /\ DOMAIN result \ {"kind", "value"} # {}

\* the 100 passes used up on the price of a 5% volatility, strike 90, and the
\* last estimate returned as a bare number
NonConvergenceWitness ==
    /\ call.op = "calculateImpliedVolatility"
    /\ call.strikePrice = 90 /\ call.timeToExpiry = 62500
    /\ solver.status = "exhausted" /\ solver.i = MaxIterations
    /\ result = [kind |-> "number", value |-> solver.volatility]
    /\ IsFinite(result.value) /\ result.value > MinVolatility /\ result.value < Huge

\* C19: calculateImpliedVolatility always terminates.  A pass prices the
\* option once; no pass starts after the 100th; the loop is left at the
\* first pass that finds |price - marketPrice| < 1e-6, returning the
\* volatility of that pass; and every call comes to return a value.
SolverTerminates ==
    /\ [](solver.status = "running" => solver.i \in 0..(MaxIterations - 1))
    /\ [](SolverDone =>
            /\ result = [kind |-> "number", value |-> solver.volatility]
            /\ IF solver.status = "exhausted" THEN solver.i = MaxIterations
               ELSE solver.i \in 0..(MaxIterations - 1))
    /\ [][(solver.status = "running" /\ IsFinite(solver.volatility)
                /\ solver.volatility # Huge /\ WithinTolerance)
            => solver' = [solver EXCEPT !.status = "converged"]]_vars
    /\ (solver.status = "running" ~> SolverDone)

\* a call that returned from inside the loop, the tolerance having been met
\* at a pass after the first and before the last
SolverTerminatesWitness ==
    /\ call.op = "calculateImpliedVolatility"
    /\ solver.status = "converged" /\ solver.i \in 5..(MaxIterations - 2)
    /\ result = [kind |-> "number", value |-> solver.volatility]
    /\ WithinTolerance

\* C20: when vega at the current estimate is approximately zero and the
\* tolerance is not met, the solver stops without applying the update and
\* returns the current estimate unchanged.  Approximately zero is read as
\* below 1e-10 (a logarithm below -23.025851): such a vega turns a price
\* difference of a millionth of a dollar into a step of 10000 in the
\* volatility.
NoStepOnVanishingVega ==
    [][(/\ solver.status = "running"
        /\ IsFinite(solver.volatility) /\ solver.volatility # Huge
        /\ ~WithinTolerance
        /\ calculateVegaLn(call.stockPrice, call.strikePrice, call.timeToExpiry,
                           solver.volatility, riskFreeRate) < 0 - 23025851)
        => /\ solver' = [solver EXCEPT !.status = "zero vega"]
           /\ result' = [kind |-> "number", value |-> solver.volatility]]_vars

\* a Newton step taken at the floor of 0.001, where vega was tiny but not 0,
\* has thrown the volatility beyond every plausible value
VanishingVegaStepWitness ==
    /\ call.op = "calculateImpliedVolatility"
    /\ solver.status = "running" /\ solver.i = 2
    /\ solver.volatility = Huge /\ solver.ln > 70 * Micro

----------------------------------------------------------------------------
(* Claims about the order and the source of the simulated paths *)

\* C15: Monte Carlo is reproducible: runs with identical inputs return the
\* same terminal prices and the same MonteCarloResult.  The arguments of a
\* call are currentPrice, days, simulations and targetDecline; call.seed is
\* where the global random source happens to stand, which the caller
\* neither sets nor sees.  So every result equals the one the same arguments
\* give with the source at its start.
MonteCarloReproducible ==
    call.op = "monteCarloSimulation"
        => result = monteCarloSimulation(returns, call.currentPrice, call.days,
                                         call.simulations, call.targetDecline, 0)

\* the same engine and arguments, the random source standing elsewhere:
\* other terminal prices
MonteCarloIrreproducibleWitness ==
    /\ call.op = "monteCarloSimulation"
    /\ call.seed # 0 /\ call.simulations = 40 /\ call.days = 1 /\ call.currentPrice > 0
    /\ result.kind = "monteCarlo"
    /\ result.scenarios # monteCarloSimulation(returns, call.currentPrice, call.days,
                                               call.simulations, call.targetDecline,
                                               0).scenarios

\* the list s with its entries in another order: taken from place k + 1 on,
\* round the end, and backwards if back
Reordered(s, k, back) ==
    List([i \in 1..Len(s) |->
            s[IF back THEN Len(s) - ((i + k - 1) % Len(s)) ELSE ((i + k - 1) % Len(s)) + 1]])

\* C16: the MonteCarloResult depends only on the multiset of terminal
\* prices: with the collected prices in any other order before the sort
\* (here: started at the second or the middle path, forwards or backwards)
\* scenarios, probabilities, intervals, expectedReturn, worstCase and
\* bestCase are the same.
ResultIgnoresPathOrder ==
    (call.op = "monteCarloSimulation" /\ result.kind = "monteCarlo")
        => \A k \in {0, 1, call.simulations \div 2} : \A back \in BOOLEAN :
              result = MonteCarloResultOf(
                          SortAsc(Reordered(PushedPrices(returns, call.currentPrice,
                                                         call.days, call.simulations,
                                                         call.seed), k, back)),
                          call.simulations,
                          FMul(call.currentPrice, Micro - call.targetDecline, Micro))

\* a run of ManySims paths whose prices were pushed out of order (the first
\* above the last, so the reversed list is another list) and came back sorted
ResultIgnoresPathOrderWitness ==
    /\ call.op = "monteCarloSimulation" /\ result.kind = "monteCarlo"
    /\ call.simulations = ManySims
    /\ PushedPrices(returns, call.currentPrice, call.days, call.simulations, call.seed)[1]
         # PushedPrices(returns, call.currentPrice, call.days, call.simulations,
                        call.seed)[ManySims]
    /\ result.worstCase < result.bestCase
    /\ result.scenarios[1] = result.worstCase

----------------------------------------------------------------------------
(* Claims about sparse data and about the engine's stored inputs *)

\* C17: calculateVolumeProfile degrades gracefully on sparse data.  For a
\* non-empty bar list and at least one level, it returns a profile whose
\* priceLevel, valueAreaHigh and valueAreaLow are finite numbers in every
\* entry, also when all bars share one price or the prices are fewer than
\* the levels; for an empty bar list it fails with InsufficientData.
SparseProfileFinite ==
    (call.op = "calculateVolumeProfile" /\ call.priceLevels >= 1)
        => IF data = <<>> THEN result = Throw("InsufficientData")
           ELSE /\ result.kind = "profile"
                /\ \A k \in 1..Len(result.entries) :
                      /\ IsFinite(result.entries[k].priceLevel)
                      /\ IsFinite(result.entries[k].valueAreaHigh)
                      /\ IsFinite(result.entries[k].valueAreaLow)

\* bars that all sit at one price with traded volume, asked for several
\* levels: a profile of one entry whose priceLevel and value area are NaN
SparseProfileWitness ==
    /\ call.op = "calculateVolumeProfile" /\ call.priceLevels > 1
    /\ Len(data) > 1
    /\ \A i \in 1..Len(data) : data[i].high = data[i].low /\ data[i].low = data[1].low
    /\ result.kind = "profile" /\ Len(result.entries) = 1
    /\ result.entries[1].volume > 0
    /\ result.entries[1].priceLevel = NaN
    /\ result.entries[1].valueAreaHigh = NaN /\ result.entries[1].valueAreaLow = NaN

\* what the operation of the call in progress returns for the return series
\* rets, the random source standing at draw number seed (which only the
\* simulation reads)
ResultFrom(rets, seed) ==
    CASE call.op = "calculateGARCH" -> calculateGARCH(rets)
      [] call.op = "calculateVaR" -> calculateVaR(rets, call.confidenceLevel, 1)
      [] call.op = "calculateExpectedShortfall" ->
            calculateExpectedShortfall(rets, call.confidenceLevel)
      [] call.op = "calculateAdvancedRiskMetrics" ->
            calculateAdvancedRiskMetrics(rets, call.benchmark)
      [] call.op = "calculateVolumeProfile" -> calculateVolumeProfile(data, call.priceLevels)
      [] call.op = "monteCarloSimulation" ->
            monteCarloSimulation(rets, call.currentPrice, call.days, call.simulations,
                                 call.targetDecline, seed)
      [] OTHER -> NoResult

\* C18 as stated: no operation changes the stored history or the stored
\* return series, so the result of every operation, the simulation
\* included, is what the history as constructed and the arguments of the
\* call give, whatever was called before.
OperationsPure ==
    /\ returns = calculateReturns(data)
    /\ result = ResultFrom(calculateReturns(data), 0)

\* C18, the part the code keeps: no operation changes the stored history or
\* the stored return series (the sorts of VaR and expected shortfall work on
\* a copy), and the result of every operation is what the history as
\* constructed, the arguments of the call and, for the simulation, the draws
\* of the global random source give, whatever was called before.
StoredInputsKept ==
    /\ [][data' = data /\ returns' = returns]_vars
    /\ [](returns = calculateReturns(data))
    /\ [](call # NoCall
            => result = ResultFrom(calculateReturns(data),
                                   IF call.op = "monteCarloSimulation" THEN call.seed
                                   ELSE 0))

\* a simulation on the untouched stored inputs whose result is not the one
\* the same call gives with the random source at its start: the global
\* source had been drawn from before
OperationsImpureWitness ==
    /\ call.op = "monteCarloSimulation" /\ call.seed # 0
    /\ returns = calculateReturns(data)
    /\ result.kind = "monteCarlo"
    /\ ResultFrom(returns, 0).kind = "monteCarlo"
    /\ result # ResultFrom(returns, 0)

----------------------------------------------------------------------------
(* Claims about the point of control and the bins of the volume profile *)

\* C21: in every non-empty volume profile exactly one returned entry has
\* poc = true, and the volume of that entry is at least the volume of every
\* other entry.
PocUniqueAndLargest ==
    (call.op = "calculateVolumeProfile" /\ result.kind = "profile") =>
        LET e == result.entries
        IN  /\ Cardinality({k \in 1..Len(e) : e[k].poc}) = 1
            /\ \A k \in 1..Len(e) :
                  e[k].poc => \A j \in 1..Len(e) : e[j].volume <= e[k].volume

\* a profile of several entries of different volumes whose point of control
\* is not the first entry
PocWitness ==
    /\ call.op = "calculateVolumeProfile" /\ result.kind = "profile"
    /\ Len(result.entries) >= 2
    /\ result.entries[1].volume > 0
    /\ ~result.entries[1].poc
    /\ \E k \in 2..Len(result.entries) :
          result.entries[k].poc /\ result.entries[k].volume > result.entries[1].volume

----------------------------------------------------------------------------
(* Claims about the drawdown and the GARCH path *)

\* C22: maxDrawdown is the largest relative decline of the closes from an
\* earlier close over the whole history, the first bar included: the largest
\* (c_i - c_j) / c_i over the bars i < j, and 0 when prices never decline
\* (to a hundredth, the returns of the model being rounded).
MaxDrawdownOverHistory ==
    (call.op = "calculateAdvancedRiskMetrics" /\ result.kind = "metrics") =>
        LET decline == SetMax({0} \cup
                         { ((data[i].close - data[j].close) * Micro) \div data[i].close :
                             i \in 1..Len(data), j \in 2..Len(data) })
        IN  Abs(result.maxDrawdown - decline) <= Micro \div 100

\* a history that opens at its highest close: the reported drawdown is the
\* largest decline from the second bar on, and the decline from the first
\* bar, more than five hundredths larger, is not reported
MaxDrawdownSkipsFirstBarWitness ==
    /\ call.op = "calculateAdvancedRiskMetrics" /\ result.kind = "metrics"
    /\ \A j \in 2..Len(data) : data[j].close < data[1].close
    /\ LET later == SetMax({0} \cup
                       { ((data[i].close - data[j].close) * Micro) \div data[i].close :
                           i \in 2..Len(data), j \in 2..Len(data) })
           first == SetMax({ ((data[1].close - data[j].close) * Micro) \div data[1].close :
                               j \in 2..Len(data) })
       IN  /\ Abs(result.maxDrawdown - later) <= Micro \div 100
           /\ first > result.maxDrawdown + 5 * (Micro \div 100)

\* C23: the GARCH volatility path has one entry per return (bars - 1
\* entries), and every index at which the dashboards read it for the
\* volatility chart is a valid index of the path, for every history of one
\* bar or more.
GarchPathReadsValid ==
    (call.op = "calculateGARCH" /\ data # <<>>) =>
        /\ result.kind = "garch"
        /\ Len(result.volatility) = Len(data) - 1
        /\ \A k \in 1..Len(volatilityData(data, result)) :
              volatilityData(data, result)[k].volatility # NaN

\* a history longer than the chart: the path has one entry per return, and
\* the row of the last bar reads the path one past its end
GarchPathReadWitness ==
    /\ call.op = "calculateGARCH" /\ result.kind = "garch"
    /\ Len(data) > ChartBars
    /\ Len(result.volatility) = Len(data) - 1
    /\ LET rows == volatilityData(data, result)
       IN  /\ Len(rows) = ChartBars
           /\ rows[ChartBars].volatility = NaN
           /\ \A k \in 1..(ChartBars - 1) : IsFinite(rows[k].volatility)

----------------------------------------------------------------------------
(* Claims about the bins of the volume profile *)

\* C24: calculateVolumeProfile(K) partitions [min(low), max(high)] into
\* exactly K bins: for a history whose prices differ and K >= 1, at most K
\* entries are returned and every returned priceLevel is >= min(low) and
\* < max(high), also for a bar whose high, low and close all equal the
\* overall maximum high.
BinsWithinRange ==
    (/\ call.op = "calculateVolumeProfile" /\ result.kind = "profile"
     /\ call.priceLevels >= 1
     /\ \E i, j \in 1..Len(data) : data[i].low < data[j].high) =>
        /\ Len(result.entries) <= call.priceLevels
        /\ \A k \in 1..Len(result.entries) :
              /\ result.entries[k].priceLevel >=
                    SetMin({data[i].low : i \in 1..Len(data)}) * RScale
              /\ result.entries[k].priceLevel <
                    SetMax({data[i].high : i \in 1..Len(data)}) * RScale

\* a history with a bar flat at the overall maximum high and bars in every
\* bin below: K + 1 entries, the last with priceLevel = max(high)
BinsBeyondRangeWitness ==
    /\ call.op = "calculateVolumeProfile" /\ result.kind = "profile"
    /\ call.priceLevels >= 1
    /\ \E i \in 1..Len(data) :
          /\ data[i].low = data[i].high /\ data[i].close = data[i].high
          /\ \A j \in 1..Len(data) : data[j].high <= data[i].high
          /\ \E j \in 1..Len(data) : data[j].low < data[i].high
    /\ Len(result.entries) = call.priceLevels + 1
    /\ result.entries[Len(result.entries)].priceLevel =
          SetMax({data[i].high : i \in 1..Len(data)}) * RScale

\* C25: in every volume profile the point of control belongs to the value
\* area: for a history whose prices differ and K >= 1, the priceLevel of the
\* entry with poc = true lies between valueAreaLow and valueAreaHigh, also
\* when several bins tie for the largest volume.
PocInValueArea ==
    (/\ call.op = "calculateVolumeProfile" /\ result.kind = "profile"
     /\ call.priceLevels >= 1
     /\ \E i, j \in 1..Len(data) : data[i].low < data[j].high) =>
        \A k \in 1..Len(result.entries) :
            result.entries[k].poc =>
                /\ result.entries[k].valueAreaLow <= result.entries[k].priceLevel
                /\ result.entries[k].priceLevel <= result.entries[k].valueAreaHigh

\* bars without traded volume in several bins: all bins tie at 0, the value
\* area is the first bin alone and the point of control is the last
PocOutsideValueAreaWitness ==
    /\ call.op = "calculateVolumeProfile" /\ result.kind = "profile"
    /\ call.priceLevels >= 1
    /\ Len(result.entries) >= 2
    /\ \A k \in 1..Len(result.entries) : result.entries[k].volume = 0
    /\ result.entries[Len(result.entries)].poc
    /\ result.entries[1].valueAreaHigh = result.entries[1].priceLevel
    /\ result.entries[1].valueAreaLow = result.entries[1].priceLevel
    /\ result.entries[Len(result.entries)].priceLevel > result.entries[1].valueAreaHigh

----------------------------------------------------------------------------
(* Claims about the tail of the expected shortfall *)

\* C27: the expected shortfall is computed over a non-empty tail: for every
\* return series of length N >= 1 and the confidence levels 0.95 and 0.99 of
\* calculateAdvancedRiskMetrics the cutoff floor((1 - c) * N) is >= 1, and
\* computing the metrics does not fail, short histories included.
ShortfallTailNonEmpty ==
    (call.op = "calculateAdvancedRiskMetrics" /\ returns # <<>>) =>
        /\ TailIndex(950000, Len(returns)) >= 1
        /\ TailIndex(990000, Len(returns)) >= 1
        /\ result.kind = "metrics"

\* the metrics of a history of two to five bars: the cutoff of the 95%
\* shortfall is 0 and mean() throws on the empty tail
ShortfallTailEmptyWitness ==
    /\ call.op = "calculateAdvancedRiskMetrics"
    /\ Len(returns) >= 1 /\ Len(returns) < 20
    /\ TailIndex(950000, Len(returns)) = 0
    /\ calculateExpectedShortfall(returns, 950000).kind = "throw"
    /\ result = Throw("mean requires at least one data point")

----------------------------------------------------------------------------
(* Claims about the risk-free rate of the analyzer *)

\* C26: an OptionsAnalyzer constructed with an explicit risk-free rate r >= 0
\* uses exactly r in every price it computes, r = 0 included; the 5% default
\* applies only when no rate is passed to the constructor.
ExplicitRateUsed ==
    /\ rateGiven = <<>> => riskFreeRate = DefaultRate
    /\ rateGiven # <<>> =>
          /\ riskFreeRate = rateGiven[1]
          /\ call.op = "calculateBlackScholes" =>
                result.value = calculateBlackScholes(call.stockPrice, call.strikePrice,
                                                     call.timeToExpiry, call.volatility,
                                                     call.optionType, rateGiven[1])

\* an analyzer constructed with the rate 0 prices an option at 5%, and the
\* price differs from the price at the rate 0
ExplicitZeroRateWitness ==
    /\ rateGiven = <<0>> /\ riskFreeRate = DefaultRate
    /\ call.op = "calculateBlackScholes"
    /\ result.value = calculateBlackScholes(call.stockPrice, call.strikePrice,
                                            call.timeToExpiry, call.volatility,
                                            call.optionType, DefaultRate)
    /\ result.value # calculateBlackScholes(call.stockPrice, call.strikePrice,
                                            call.timeToExpiry, call.volatility,
                                            call.optionType, 0)

----------------------------------------------------------------------------
(* Claims about the providers of quotes and the real-time subscription *)

\* the attempts c of one call went to the providers in ascending priority,
\* each after the one before had failed or, for a history, had no data
ContactedInOrder(c, op) ==
    /\ Len(c) <= 6
    /\ \A k \in 1..Len(c) :
          /\ c[k].provider = <<"FMP", "ALPHA_VANTAGE", "POLYGON", "FINNHUB", "TWELVE", "YAHOO">>[k]
          /\ c[k].outcome = "empty" => op = "getHistoricalData"
          /\ k < Len(c) => c[k].outcome \in {"failed", "empty"}

\* C28: on a cache miss getQuote and getHistoricalData contact the providers
\* strictly in ascending priority (FMP, Alpha Vantage, Polygon, Finnhub,
\* Twelve Data, Yahoo), a provider only after every provider before it has
\* failed (or, for a history, returned no data); they return and cache the
\* first good result without contacting a later provider, and return null
\* only when all providers have failed; a failed attempt never writes the
\* cache, and a cached value is returned without contacting any provider.
FailoverOrder ==
    /\ [](\A p \in pending :
            /\ ContactedInOrder(p.contacted, p.op)
            /\ p.contacted[Len(p.contacted)].outcome = "awaited")
    /\ [](result.kind = "returned" =>
            /\ ContactedInOrder(result.contacted, call.op)
            /\ result.contacted = <<>> => result.value # null
            /\ (result.contacted # <<>> /\ result.value # null) =>
                  /\ result.contacted[Len(result.contacted)].outcome = "ok"
                  /\ result.value.source =
                        result.contacted[Len(result.contacted)].provider
            /\ result.value = null =>
                  /\ Len(result.contacted) = 6
                  /\ \A k \in 1..6 : result.contacted[k].outcome \in {"failed", "empty"})
    /\ [][
           /\ (call = NoCall /\ call' # NoCall) =>
               /\ apiCache' = apiCache
               /\ IF getCachedData(apiCache, call'.key, now) # null
                  THEN /\ result' = [kind |-> "returned", contacted |-> <<>>,
                                     value |-> getCachedData(apiCache, call'.key, now)]
                       /\ pending' = pending
                  ELSE \E p \in pending' \ pending : Len(p.contacted) = 1
           /\ (result.kind # "returned" /\ result'.kind = "returned"
                  /\ result'.contacted # <<>>) =>
               IF result'.value # null
               THEN getCachedData(apiCache', call.key, now') = result'.value
               ELSE apiCache' = apiCache
           /\ (\E p \in pending, q \in pending' :
                  q.from = p.from /\ Len(q.contacted) = Len(p.contacted) + 1) =>
               apiCache' = apiCache]_vars

\* a history asked for on a cache miss: the first provider failed, the second
\* had no data, the third answered; its answer is returned and cached
FailoverWitness ==
    /\ call.op = "getHistoricalData" /\ result.kind = "returned"
    /\ Len(result.contacted) = 3
    /\ result.contacted[1] = [provider |-> "FMP", outcome |-> "failed"]
    /\ result.contacted[2] = [provider |-> "ALPHA_VANTAGE", outcome |-> "empty"]
    /\ result.contacted[3] = [provider |-> "POLYGON", outcome |-> "ok"]
    /\ result.value.source = "POLYGON"
    /\ getCachedData(apiCache, "history", now) = result.value

\* C29: each tick of subscribeToRealTimeData forces fresh data: the quote
\* handed to the subscriber by the handler of a tick was fetched during that
\* tick, and is never a value that was cached before the tick, in the cache
\* of MultiApiService included.
TickDeliversFresh ==
    \A i \in 1..Len(delivered) : delivered[i].quote.tick = delivered[i].tick

\* the second tick hands over the quote the first tick fetched, out of the
\* cache of MultiApiService
StaleQuoteWitness ==
    /\ interval.ticks = 2
    /\ Len(delivered) = 2
    /\ delivered[1].tick = 1 /\ delivered[1].quote.tick = 1
    /\ delivered[2].tick = 2 /\ delivered[2].quote = delivered[1].quote
    /\ getCachedData(apiCache, "quote", now) = delivered[2].quote

\* C30: after the function returned by subscribeToRealTimeData has been
\* called, the callback is never invoked again, whatever was in flight at
\* that moment.
NoCallbackAfterUnsubscribe ==
    [][interval.status = "cleared" => delivered' = delivered]_vars

\* the quote of a fetch that was in flight when the timer was cleared has
\* been handed to the callback
CallbackAfterUnsubscribeWitness ==
    /\ interval.status = "cleared"
    /\ delivered # <<>>
    /\ delivered[Len(delivered)].cleared
    /\ delivered[Len(delivered)].quote.tick = delivered[Len(delivered)].tick

====
